---- MODULE Spec2Model ----
(***************************************************************************)
(* A model of the BSPC sparse-matrix file format implementation            *)
(* (crates bspc-core and bspc): the leaf and chunked bloom filters, the    *)
(* 160-byte header codec, the COO writer, the memory-mapped reader and     *)
(* its element/row/column scans.                                           *)
(*                                                                         *)
(* Machine words.  TLC integers are 32-bit, so a u64/usize is modelled as  *)
(* four 16-bit limbs <<l0, l1, l2, l3>> (least significant first) and a    *)
(* u32 as the words whose two upper limbs are zero.  Small quantities      *)
(* (lengths, offsets inside a file, chunk sizes) are plain integers.       *)
(***************************************************************************)
EXTENDS Integers, Sequences, FiniteSets, TLC

(***************************************************************************)
(* Bounds of the explored instances.                                       *)
(***************************************************************************)
\* Largest small key inserted in a leaf bloom filter.
MaxKey == 3
\* Largest hash count tried besides 8 (the clamp limit of new) and 9.
MaxHashCount == 2
\* Largest nrows and ncols of the small headers that are encoded and decoded.
MaxHeaderDim == 2
\* Largest small nnz of the layouts computed (two large ones are added).
MaxLayoutNnz == 12
\* Largest number of chunk filters of the bloom block a layout is followed by.
MaxLayoutChunks == 4
\* Largest matrix of the round-trip inputs, and the most triples written.
MaxRows == 3
MaxCols == 2
MaxNnz == 2
\* Largest ChunkConfig::chunk_size of the small round-trip inputs.
MaxChunkSize == 2
\* Largest label stride of the built metadata sections.
MaxStride == 2
\* Most row labels and most column labels of a built metadata section.
MaxRowLabels == 2
MaxColLabels == 1
\* Most rayon worker threads and most triples of the step-wise writer.
MaxThreads == 3
MaxWriterNnz == 3
\* Longest of the short strings handed to parse_range.
MaxRangeLen == 4
\* Largest small offset and largest exponent of a small boundary handed to
\* align_to_boundary.
MaxAlignOffset == 17
MaxAlignLog == 4
\* Longest slice handed to bulk_insert_sorted.
MaxBulkRows == 2
\* Most inserts into one chunked bloom filter after its construction.
MaxFilterInserts == 1
\* Largest filter size in bytes and largest small expected element count
\* handed to BloomFilter::new.
MaxFilterBytes == 48
MaxExpected == 4

(***************************************************************************)
(* Bit and word arithmetic.                                                *)
(***************************************************************************)
LIMB == 2 ^ 16

RECURSIVE BitXor(_, _)
BitXor(a, b) ==
  IF a = 0 THEN b
  ELSE IF b = 0 THEN a
  ELSE ((a + b) % 2) + 2 * BitXor(a \div 2, b \div 2)

RECURSIVE BitAnd(_, _)
BitAnd(a, b) ==
  IF a = 0 \/ b = 0 THEN 0
  ELSE ((a % 2) * (b % 2)) + 2 * BitAnd(a \div 2, b \div 2)

TestBit(byte, off) == (byte \div (2 ^ off)) % 2 = 1

\* Faulty variant of OrBits: `=` instead of `|=`, the old bits are lost.
OrBits_overwrite(byte, offs) ==
  LET bit(o) == IF o \in offs THEN 2 ^ o ELSE 0
  IN bit(0) + bit(1) + bit(2) + bit(3) + bit(4) + bit(5) + bit(6) + bit(7)

\* byte |= 1 << o for every offset o in offs.
OrBits(byte, offs) ==
  LET bit(o) == IF TestBit(byte, o) \/ o \in offs THEN 2 ^ o ELSE 0
  IN bit(0) + bit(1) + bit(2) + bit(3) + bit(4) + bit(5) + bit(6) + bit(7)

\* A u64 from a non-negative integer below 2^31.
U64FromInt(n) == <<n % LIMB, (n \div LIMB) % LIMB, 0, 0>>

U64Zero == <<0, 0, 0, 0>>

\* The word is below 2^31, so it is representable as an integer.
U64Fits(w) == w[4] = 0 /\ w[3] = 0 /\ w[2] < 32768

U64ToInt(w) == w[1] + LIMB * w[2]

U64Lt(a, b) ==
  \/ a[4] < b[4]
  \/ a[4] = b[4] /\ a[3] < b[3]
  \/ a[4] = b[4] /\ a[3] = b[3] /\ a[2] < b[2]
  \/ a[4] = b[4] /\ a[3] = b[3] /\ a[2] = b[2] /\ a[1] < b[1]

U64Le(a, b) == a = b \/ U64Lt(a, b)

\* u64::to_le_bytes / usize::to_le_bytes: eight bytes, least significant first.
to_le_bytes(w) ==
  <<w[1] % 256, w[1] \div 256, w[2] % 256, w[2] \div 256,
    w[3] % 256, w[3] \div 256, w[4] % 256, w[4] \div 256>>

\* u64::from_le_bytes on an eight-byte sequence.
from_le_bytes(b) ==
  <<b[1] + 256 * b[2], b[3] + 256 * b[4], b[5] + 256 * b[6], b[7] + 256 * b[8]>>

(***************************************************************************)
(* Results: Result::Ok / Result::Err, Option, and panics.                  *)
(***************************************************************************)
Ok(v) == [ok |-> TRUE, value |-> v]
Err(kind) == [ok |-> FALSE, err |-> kind]

\* A panic that unwinds out of the call (no value is returned).
Panic(msg) == [ok |-> FALSE, err |-> "PANIC", msg |-> msg]

\* Option: None and Some(v).
None == [ok |-> FALSE, err |-> "None"]
Some(v) == [ok |-> TRUE, value |-> v]

\* Err(binsparse_rs::Error::InvalidState(msg))
InvalidState(msg) == [ok |-> FALSE, err |-> "InvalidState", msg |-> msg]

\* Err(binsparse_rs::Error::IoError(msg))
IoError(msg) == [ok |-> FALSE, err |-> "IoError", msg |-> msg]

(***************************************************************************)
(* bspc-core/src/bloom_filter.rs: BloomFilter<N>.                          *)
(*                                                                         *)
(* hash_function computes a 64-bit FNV-1a style hash with wrapping         *)
(* multiplication; insert and contains only use hash % (N*8).  For the     *)
(* three instantiated sizes N*8 is 64, 256 or 1024, a divisor of 2^16, and *)
(* the low 16 bits of a wrapping product or xor depend only on the low 16  *)
(* bits of the operands, so the hash is carried modulo 2^16: the offset    *)
(* basis 2166136261 = 0x811C9DC5 and the prime 16777619 = 0x01000193 are   *)
(* kept by their low 16 bits.                                              *)
(***************************************************************************)
FNV_OFFSET_BASIS == 40389
FNV_PRIME == 403

\* Bitwise xor of two bytes, tabulated once.
XorByte == [a \in 0..255 |-> [b \in 0..255 |-> BitXor(a, b)]]

\* One round: hash ^= byte; hash = hash.wrapping_mul(prime), modulo 2^16.
FnvRound(hash, byte) ==
  ((((hash \div 256) * 256) + XorByte[hash % 256][byte]) * FNV_PRIME) % LIMB

RECURSIVE FnvBytes(_, _, _)
FnvBytes(hash, bytes, i) ==
  IF i > Len(bytes) THEN hash
  ELSE FnvBytes(FnvRound(hash, bytes[i]), bytes, i + 1)

hash_function(value, seed) ==
  FnvRound(FnvBytes(FNV_OFFSET_BASIS, to_le_bytes(value), 1), seed)

ZeroBits(n) == [j \in 1..n |-> 0]

\* ceil(a / b) for b > 0.
div_ceil(a, b) == (a + b - 1) \div b

clamp(x, lo, hi) == IF x < lo THEN lo ELSE IF x > hi THEN hi ELSE x

\* BloomFilter::<N>::new(expected_elements); `k as u8` truncates modulo 256.
BloomFilter_new(n, expected_elements) ==
  LET optimal_k == IF expected_elements > 0
                   THEN div_ceil((n * 8 * 693) \div expected_elements, 1000) % 256
                   ELSE 3
  IN [n |-> n, bits |-> ZeroBits(n), hash_count |-> clamp(optimal_k, 1, 8)]

BloomFilter_with_hash_count(n, hash_count) ==
  [n |-> n, bits |-> ZeroBits(n), hash_count |-> hash_count]

BloomFilter_from_bits(n, bits, hash_count) ==
  [n |-> n, bits |-> bits, hash_count |-> hash_count]

\* The bit probed for `value` by hash function number i.
bit_index(f, value, i) == hash_function(value, i) % (f.n * 8)

\* insert: for i in 0..hash_count { bits[byte_index] |= 1 << bit_offset }.
RECURSIVE BloomFilter_insert_from(_, _, _)
BloomFilter_insert_from(f, value, i) ==
  IF i >= f.hash_count THEN f
  ELSE LET b == bit_index(f, value, i)
       IN BloomFilter_insert_from(
            [f EXCEPT !.bits[(b \div 8) + 1] = OrBits(@, {b % 8})],
            value, i + 1)

BloomFilter_insert(f, value) == BloomFilter_insert_from(f, value, 0)

BloomFilter_contains(f, value) ==
  \A i \in 0..(f.hash_count - 1) :
    LET b == bit_index(f, value, i)
    IN TestBit(f.bits[(b \div 8) + 1], b % 8)

\* Faulty variant of clear: the bits are left as they are.
BloomFilter_clear_kept(f) == f

\* BloomFilter::clear
BloomFilter_clear(f) == [f EXCEPT !.bits = ZeroBits(f.n)]

(***************************************************************************)
(* Checked u64 arithmetic: [value, overflow].                              *)
(***************************************************************************)
\* u64::checked_add: overflow is TRUE where the code gets None.
U64Add(a, b) ==
  LET s1 == a[1] + b[1]
      s2 == a[2] + b[2] + (s1 \div LIMB)
      s3 == a[3] + b[3] + (s2 \div LIMB)
      s4 == a[4] + b[4] + (s3 \div LIMB)
  IN [value |-> <<s1 % LIMB, s2 % LIMB, s3 % LIMB, s4 % LIMB>>,
      overflow |-> s4 >= LIMB]

\* Column k of the byte-wise schoolbook product of two 8-byte numbers.
RECURSIVE MulColumn(_, _, _, _)
MulColumn(a, b, k, i) ==
  IF i > 7 THEN 0
  ELSE (IF k - i \in 0..7 THEN a[i + 1] * b[k - i + 1] ELSE 0)
       + MulColumn(a, b, k, i + 1)

\* The 16 bytes of the full product, least significant first.
RECURSIVE MulBytes(_, _, _, _)
MulBytes(a, b, k, carry) ==
  IF k > 15 THEN <<>>
  ELSE LET s == MulColumn(a, b, k, 0) + carry
       IN <<s % 256>> \o MulBytes(a, b, k + 1, s \div 256)

\* u64::checked_mul.
U64Mul(x, y) ==
  LET p == MulBytes(to_le_bytes(x), to_le_bytes(y), 0, 0)
  IN [value |-> from_le_bytes(SubSeq(p, 1, 8)),
      overflow |-> \E i \in 9..16 : p[i] # 0]

(***************************************************************************)
(* bspc-core/src/format/header.rs: BspcHeader and its codec.               *)
(***************************************************************************)
\* b"BSPC"
MAGIC == <<66, 83, 80, 67>>
VERSION == 1
\* size_of::<BspcHeader>()
SIZE == 160

\* The fifteen u64 fields in declaration (and wire) order.
U64Fields ==
  <<"nrows", "ncols", "nnz", "values_offset", "values_size",
    "indices_0_offset", "indices_0_size", "indices_1_offset", "indices_1_size",
    "pointers_offset", "pointers_size", "metadata_offset", "metadata_size",
    "bloom_filter_offset", "bloom_filter_size">>

ZeroReserved == [i \in 1..32 |-> 0]

\* BspcHeader::new()
BspcHeader_new ==
  [magic |-> MAGIC, version |-> VERSION, format_type |-> 0, data_type |-> 0,
   structure_flags |-> 0, nrows |-> U64Zero, ncols |-> U64Zero, nnz |-> U64Zero,
   values_offset |-> U64Zero, values_size |-> U64Zero,
   indices_0_offset |-> U64Zero, indices_0_size |-> U64Zero,
   indices_1_offset |-> U64Zero, indices_1_size |-> U64Zero,
   pointers_offset |-> U64Zero, pointers_size |-> U64Zero,
   metadata_offset |-> U64Zero, metadata_size |-> U64Zero,
   bloom_filter_offset |-> U64Zero, bloom_filter_size |-> U64Zero,
   reserved |-> ZeroReserved]

\* Faulty variant of to_bytes: ncols is written before nrows.
to_bytes_swapped(h) ==
  h.magic \o <<h.version, h.format_type, h.data_type, h.structure_flags>>
  \o to_le_bytes(h.ncols) \o to_le_bytes(h.nrows) \o to_le_bytes(h.nnz)
  \o to_le_bytes(h.values_offset) \o to_le_bytes(h.values_size)
  \o to_le_bytes(h.indices_0_offset) \o to_le_bytes(h.indices_0_size)
  \o to_le_bytes(h.indices_1_offset) \o to_le_bytes(h.indices_1_size)
  \o to_le_bytes(h.pointers_offset) \o to_le_bytes(h.pointers_size)
  \o to_le_bytes(h.metadata_offset) \o to_le_bytes(h.metadata_size)
  \o to_le_bytes(h.bloom_filter_offset) \o to_le_bytes(h.bloom_filter_size)
  \o h.reserved

\* BspcHeader::to_bytes: the fields appended one after the other.
to_bytes(h) ==
  h.magic \o <<h.version, h.format_type, h.data_type, h.structure_flags>>
  \o to_le_bytes(h.nrows) \o to_le_bytes(h.ncols) \o to_le_bytes(h.nnz)
  \o to_le_bytes(h.values_offset) \o to_le_bytes(h.values_size)
  \o to_le_bytes(h.indices_0_offset) \o to_le_bytes(h.indices_0_size)
  \o to_le_bytes(h.indices_1_offset) \o to_le_bytes(h.indices_1_size)
  \o to_le_bytes(h.pointers_offset) \o to_le_bytes(h.pointers_size)
  \o to_le_bytes(h.metadata_offset) \o to_le_bytes(h.metadata_size)
  \o to_le_bytes(h.bloom_filter_offset) \o to_le_bytes(h.bloom_filter_size)
  \o h.reserved

\* BspcHeader::to_bytes_array: a 160-byte array filled index by index
\* (i is the zero-based byte index).
to_bytes_array(h) ==
  LET byte(i) ==
        IF i < 4 THEN h.magic[i + 1]
        ELSE IF i = 4 THEN h.version
        ELSE IF i = 5 THEN h.format_type
        ELSE IF i = 6 THEN h.data_type
        ELSE IF i = 7 THEN h.structure_flags
        ELSE IF i < 128
             THEN to_le_bytes(h[U64Fields[((i - 8) \div 8) + 1]])[((i - 8) % 8) + 1]
        ELSE h.reserved[i - 128 + 1]
  IN [i \in 1..SIZE |-> byte(i - 1)]

\* u64::from_le_bytes([bytes[offset], ..., bytes[offset + 7]]), offset zero-based.
read_u64(bytes, offset) == from_le_bytes(SubSeq(bytes, offset + 1, offset + 8))

\* The struct literal built from a buffer of at least 160 bytes.
ParsedFields(bytes) ==
  [magic |-> MAGIC, version |-> bytes[5], format_type |-> bytes[6],
   data_type |-> bytes[7], structure_flags |-> bytes[8],
   nrows |-> read_u64(bytes, 8), ncols |-> read_u64(bytes, 16),
   nnz |-> read_u64(bytes, 24),
   values_offset |-> read_u64(bytes, 32), values_size |-> read_u64(bytes, 40),
   indices_0_offset |-> read_u64(bytes, 48), indices_0_size |-> read_u64(bytes, 56),
   indices_1_offset |-> read_u64(bytes, 64), indices_1_size |-> read_u64(bytes, 72),
   pointers_offset |-> read_u64(bytes, 80), pointers_size |-> read_u64(bytes, 88),
   metadata_offset |-> read_u64(bytes, 96), metadata_size |-> read_u64(bytes, 104),
   bloom_filter_offset |-> read_u64(bytes, 112),
   bloom_filter_size |-> read_u64(bytes, 120),
   reserved |-> SubSeq(bytes, 129, 160)]

\* BspcHeader::from_bytes (format/header.rs): length and magic are the only
\* conditions; every other byte is taken as it is.
from_bytes(bytes) ==
  IF Len(bytes) < SIZE THEN Err("InsufficientBuffer")
  ELSE IF SubSeq(bytes, 1, 4) # MAGIC THEN Err("InvalidHeader")
  ELSE Ok(ParsedFields(bytes))

\* BspcHeader::is_valid (format/header.rs).
is_valid(h) == h.magic = MAGIC /\ h.version <= VERSION

\* The other BspcHeader of the crate (format.rs): is_valid.
format_rs_is_valid(h) ==
  /\ h.magic = MAGIC
  /\ h.version = VERSION
  /\ h.nrows # U64Zero
  /\ h.ncols # U64Zero
  /\ LET max_elements == U64Mul(h.nrows, h.ncols)
     IN ~max_elements.overflow /\ U64Le(h.nnz, max_elements.value)

\* The other BspcHeader of the crate (format.rs): from_bytes.
format_rs_from_bytes(bytes) ==
  IF Len(bytes) < SIZE THEN Err("InvalidHeader")
  ELSE IF SubSeq(bytes, 1, 4) # MAGIC THEN Err("InvalidHeader")
  ELSE LET header == ParsedFields(bytes)
           total_elements == U64Mul(header.nrows, header.ncols)
       IN IF ~format_rs_is_valid(header) THEN Err("InvalidHeader")
          ELSE IF header.nrows = U64Zero \/ header.ncols = U64Zero
               THEN Err("InvalidHeader")
          ELSE IF total_elements.overflow THEN Err("InvalidHeader")
          ELSE IF ~U64Le(header.nnz, total_elements.value) THEN Err("CorruptedData")
          ELSE Ok(header)

\* DataType: the enum's discriminants, size_of and align_of of the element
\* type each stands for (64-bit targets).
DataTypes == <<"F32", "F64", "I32", "I64", "U32", "U64">>

\* DataType::from_u8: None (here "None") outside 0..5.
DataType_from_u8(value) == IF value \in 0..5 THEN DataTypes[value + 1] ELSE "None"

\* `DataType as u8`
DataType_as_u8(t) == CHOOSE v \in 0..5 : DataTypes[v + 1] = t

\* DataType::size_bytes, which is size_of::<T>() of the element type.
size_bytes(t) == IF t \in {"F32", "I32", "U32"} THEN 4 ELSE 8

\* align_of::<T>() of the element type.
align_of(t) == IF t \in {"F32", "I32", "U32"} THEN 4 ELSE 8

MatrixFormats == <<"Coo", "Csr", "Csc">>

\* MatrixFormat::from_u8: None outside 0..2.
MatrixFormat_from_u8(value) ==
  IF value \in 0..2 THEN MatrixFormats[value + 1] ELSE "None"

\* Option::unwrap_or
unwrap_or(opt, default) == IF opt = "None" THEN default ELSE opt

(***************************************************************************)
(* bspc/src/mmap_backend/file_io.rs: FileLayout and the header the writer  *)
(* fills in.  nnz is the length of an in-memory slice of (usize, usize, T) *)
(* triples, so nnz * size_of::<T>() cannot overflow a u64 and the two      *)
(* checked_mul error returns of calculate are unreachable; offsets and     *)
(* sizes of a layout are plain integers.                                   *)
(***************************************************************************)
\* Faulty variant of calculate: the row-index offset is not rounded up to 4
\* and the values offset is the bare header size plus one.
FileLayout_calculate_unaligned(t, nnz) ==
  LET values_offset == SIZE + 1
      values_size == nnz * size_bytes(t)
      indices_0_offset == values_offset + values_size
      indices_0_size == nnz * 4
      indices_1_offset == indices_0_offset + indices_0_size
  IN [values_offset |-> values_offset, values_size |-> values_size,
      indices_0_offset |-> indices_0_offset, indices_0_size |-> indices_0_size,
      indices_1_offset |-> indices_1_offset, indices_1_size |-> indices_0_size]

\* FileLayout::calculate::<T>(nnz)
FileLayout_calculate(t, nnz) ==
  LET alignment == align_of(t)
      values_offset == div_ceil(SIZE, alignment) * alignment
      values_size == nnz * size_bytes(t)
      indices_0_offset == div_ceil(values_offset + values_size, 4) * 4
      indices_0_size == nnz * 4
      indices_1_offset == div_ceil(indices_0_offset + indices_0_size, 4) * 4
  IN [values_offset |-> values_offset, values_size |-> values_size,
      indices_0_offset |-> indices_0_offset, indices_0_size |-> indices_0_size,
      indices_1_offset |-> indices_1_offset, indices_1_size |-> indices_0_size]

\* bspc/src/metadata.rs align_to_8: (offset + 7) & !7
align_to_8(offset) == (offset + 7) - BitAnd(offset + 7, 7)

\* ChunkBloomFilter::serialized_size for k chunk filters.
serialized_size(k) == 12 + (k * 9)

\* The header write_sparse_matrix builds (file_io.rs 228-245) for element
\* type t, dimensions nrows x ncols (u64 words), nnz triples and a
\* serialized bloom index of bloom_len bytes.
writer_header(t, nrows, ncols, nnz, bloom_len) ==
  LET layout == FileLayout_calculate(t, nnz)
      bloom_filter_offset == layout.indices_1_offset + layout.indices_1_size
  IN [BspcHeader_new EXCEPT
        !.nrows = nrows, !.ncols = ncols, !.nnz = U64FromInt(nnz),
        !.format_type = 0,
        !.data_type = DataType_as_u8(t),
        !.values_offset = U64FromInt(layout.values_offset),
        !.values_size = U64FromInt(layout.values_size),
        !.indices_0_offset = U64FromInt(layout.indices_0_offset),
        !.indices_0_size = U64FromInt(layout.indices_0_size),
        !.indices_1_offset = U64FromInt(layout.indices_1_offset),
        !.indices_1_size = U64FromInt(layout.indices_1_size),
        !.bloom_filter_offset = U64FromInt(bloom_filter_offset),
        !.bloom_filter_size = U64FromInt(bloom_len),
        !.pointers_offset = U64Zero, !.pointers_size = U64Zero]

\* metadata_start of write_sparse_matrix_with_labels (file_io.rs 396-397).
metadata_start(header) ==
  align_to_8(U64ToInt(header.bloom_filter_offset) + U64ToInt(header.bloom_filter_size))

(***************************************************************************)
(* More word arithmetic: division of a u64 by a small divisor, u32 words.  *)
(***************************************************************************)
\* Long division of one 16-bit limb, bit by bit from the top; rem < d < 2^30.
RECURSIVE DivBits(_, _, _, _, _)
DivBits(limb, d, rem, i, q) ==
  IF i < 0 THEN [q |-> q, r |-> rem]
  ELSE LET cur == (rem * 2) + ((limb \div (2 ^ i)) % 2)
       IN IF cur >= d THEN DivBits(limb, d, cur - d, i - 1, (q * 2) + 1)
          ELSE DivBits(limb, d, cur, i - 1, q * 2)

\* w / d and w % d for a u64 w and an integer divisor 0 < d <= 2^30.
U64DivMod(w, d) ==
  IF U64Fits(w)
  THEN [q |-> U64FromInt(U64ToInt(w) \div d), r |-> U64ToInt(w) % d]
  ELSE LET s4 == DivBits(w[4], d, 0, 15, 0)
           s3 == DivBits(w[3], d, s4.r, 15, 0)
           s2 == DivBits(w[2], d, s3.r, 15, 0)
           s1 == DivBits(w[1], d, s2.r, 15, 0)
       IN [q |-> <<s1.q, s2.q, s3.q, s4.q>>, r |-> s1.r]

\* (2 * w + bit) mod 2^64
U64Shl1(w, bit) ==
  << ((2 * w[1]) + bit) % LIMB,
     ((2 * w[2]) + (w[1] \div 32768)) % LIMB,
     ((2 * w[3]) + (w[2] \div 32768)) % LIMB,
     ((2 * w[4]) + (w[3] \div 32768)) % LIMB >>

\* a - b mod 2^64 (usize::wrapping_sub; the difference itself for a >= b).
U64Sub(a, b) ==
  LET b1 == IF a[1] < b[1] THEN 1 ELSE 0
      b2 == IF a[2] < b[2] + b1 THEN 1 ELSE 0
      b3 == IF a[3] < b[3] + b2 THEN 1 ELSE 0
  IN << (a[1] + LIMB - b[1]) % LIMB,
        (a[2] + LIMB - b[2] - b1) % LIMB,
        (a[3] + LIMB - b[3] - b2) % LIMB,
        (a[4] + LIMB - b[4] - b3) % LIMB >>

\* Long division of a word by a word d > 0: the steps for bits i down to
\* stop of w, from the remainder and quotient of the bits above them.
RECURSIVE DivWord(_, _, _, _, _, _)
DivWord(w, d, i, stop, rem, q) ==
  IF i < stop THEN [q |-> q, r |-> rem]
  ELSE LET cur == U64Shl1(rem, (w[(i \div 16) + 1] \div (2 ^ (i % 16))) % 2)
       IN IF rem[4] >= 32768 \/ U64Le(d, cur)
          THEN DivWord(w, d, i - 1, stop, U64Sub(cur, d), U64Shl1(q, 1))
          ELSE DivWord(w, d, i - 1, stop, cur, U64Shl1(q, 0))

\* w / d and w % d on usize, both as words, for d > 0.
U64DivModWord(w, d) ==
  IF d[4] = 0 /\ d[3] = 0 /\ d[2] <= 16384
  THEN LET dm == U64DivMod(w, U64ToInt(d))
       IN [q |-> dm.q, r |-> U64FromInt(dm.r)]
  ELSE LET s4 == DivWord(w, d, 63, 48, U64Zero, U64Zero)
           s3 == DivWord(w, d, 47, 32, s4.r, s4.q)
           s2 == DivWord(w, d, 31, 16, s3.r, s3.q)
       IN DivWord(w, d, 15, 0, s2.r, s2.q)

\* usize::div_ceil
U64DivCeil(w, d) ==
  LET dm == U64DivModWord(w, d)
  IN IF dm.r = U64Zero THEN dm.q ELSE U64Add(dm.q, U64FromInt(1)).value

\* `x as u32`: the low 32 bits.
as_u32(w) == <<w[1], w[2], 0, 0>>

\* u32::to_le_bytes of a word below 2^32.
u32_to_le_bytes(w) == SubSeq(to_le_bytes(w), 1, 4)

\* u32::from_le_bytes([data[off], .., data[off + 3]]) as usize, off zero-based.
read_u32(data, off) ==
  <<data[off + 1] + (256 * data[off + 2]), data[off + 3] + (256 * data[off + 4]), 0, 0>>

(***************************************************************************)
(* slice::partition_point as the standard library implements it.  On a     *)
(* slice that is not partitioned by the predicate the result is            *)
(* unspecified and depends on the binary search of the toolchain; the two  *)
(* searches that shipped (left/right bounds in Rust 1.52-1.81, base/half   *)
(* before and after) are both modelled and a build has either.             *)
(***************************************************************************)
BinarySearches == {"left_right", "base_half"}

\* The searches of sorted_rows.partition_point(|&row| row < bound).
RECURSIVE SearchLeftRight(_, _, _, _)
SearchLeftRight(s, bound, left, right) ==
  IF left >= right THEN left
  ELSE LET mid == left + ((right - left) \div 2)
       IN IF U64Lt(s[mid + 1], bound) THEN SearchLeftRight(s, bound, mid + 1, right)
          ELSE SearchLeftRight(s, bound, left, mid)

RECURSIVE SearchBaseHalf(_, _, _, _)
SearchBaseHalf(s, bound, base, size) ==
  IF size > 1
  THEN LET half == size \div 2
           mid == base + half
       IN SearchBaseHalf(s, bound, IF U64Lt(s[mid + 1], bound) THEN mid ELSE base,
                         size - half)
  ELSE base + (IF U64Lt(s[base + 1], bound) THEN 1 ELSE 0)

partition_point(s, bound, search) ==
  IF Len(s) = 0 THEN 0
  ELSE IF search = "left_right" THEN SearchLeftRight(s, bound, 0, Len(s))
  ELSE SearchBaseHalf(s, bound, 0, Len(s))

(***************************************************************************)
(* bspc/src/chunk_bloom_filter.rs: ChunkBloomFilter, one BloomFilter64 per *)
(* chunk of chunk_size rows.  Rows, total_rows and chunk_size are usize    *)
(* words.                                                                  *)
(***************************************************************************)
\* ChunkBloomFilter::new(total_rows, chunk_size), chunk_size > 0.
LeafFilter_new(chunk_size) ==
  IF U64Fits(chunk_size) THEN BloomFilter_new(8, U64ToInt(chunk_size))
  ELSE BloomFilter_with_hash_count(8, 1)

ChunkBloomFilter_new(total_rows, chunk_size) ==
  LET num_chunks == U64ToInt(U64DivCeil(total_rows, chunk_size))
  IN [chunk_filters |-> [i \in 1..num_chunks |-> LeafFilter_new(chunk_size)],
      chunk_size |-> chunk_size,
      total_rows |-> total_rows]

\* ChunkBloomFilter::with_hash_count(total_rows, chunk_size, hash_count)
ChunkBloomFilter_with_hash_count(total_rows, chunk_size, hash_count) ==
  LET num_chunks == U64ToInt(U64DivCeil(total_rows, chunk_size))
  IN [chunk_filters |->
        [i \in 1..num_chunks |-> BloomFilter_with_hash_count(8, hash_count)],
      chunk_size |-> chunk_size,
      total_rows |-> total_rows]

\* ChunkBloomFilter::insert(row)
ChunkBloomFilter_insert(cbf, row) ==
  LET dm == U64DivModWord(row, cbf.chunk_size)
  IN IF U64Lt(dm.q, U64FromInt(Len(cbf.chunk_filters)))
     THEN [cbf EXCEPT !.chunk_filters[U64ToInt(dm.q) + 1] =
                         BloomFilter_insert(@, dm.r)]
     ELSE cbf

\* for &row in &sorted_rows[start_pos..end_pos] { filter.insert(row % chunk_size) }
RECURSIVE InsertRows(_, _, _, _, _)
InsertRows(filter, rows, chunk_size, pos, end_pos) ==
  IF pos >= end_pos THEN filter
  ELSE InsertRows(
         BloomFilter_insert(filter, U64DivModWord(rows[pos + 1], chunk_size).r),
         rows, chunk_size, pos + 1, end_pos)

\* Faulty variant of bulk_insert_sorted: nothing is inserted.
bulk_insert_dropped(cbf, sorted_rows, search) == cbf

\* ChunkBloomFilter::bulk_insert_sorted(sorted_rows) on an index whose chunk
\* bounds i * chunk_size stay below 2^64: every chunk filter takes the rows
\* between the partition points of its two chunk bounds.  The slice
\* sorted_rows[start_pos..end_pos] needs start_pos <= end_pos, which both
\* searches give as long as chunk_start <= chunk_end.  bulk_worker below is
\* the closure of one chunk with the overflow taken into account.
bulk_insert_sorted(cbf, sorted_rows, search) ==
  IF Len(sorted_rows) = 0 THEN cbf
  ELSE [cbf EXCEPT !.chunk_filters =
         [i \in 1..Len(cbf.chunk_filters) |->
            LET chunk_start == U64Mul(U64FromInt(i - 1), cbf.chunk_size).value
                chunk_end == U64Mul(U64FromInt(i), cbf.chunk_size).value
                start_pos == partition_point(sorted_rows, chunk_start, search)
                end_pos == partition_point(sorted_rows, chunk_end, search)
            IN InsertRows(cbf.chunk_filters[i], sorted_rows, cbf.chunk_size,
                          start_pos, end_pos)]]

\* The closure bulk_insert_sorted runs on chunk chunk_idx (from 0) and its
\* leaf filter (chunk_bloom_filter.rs 84-95), as Ok(filter) or a panic: the
\* two chunk bounds are unchecked products, and the slice
\* sorted_rows[start_pos..end_pos] panics when start_pos > end_pos.
bulk_worker(filter, chunk_idx, chunk_size, sorted_rows, search, profile) ==
  LET chunk_start == U64Mul(U64FromInt(chunk_idx), chunk_size)
      chunk_end == U64Mul(U64FromInt(chunk_idx + 1), chunk_size)
      start_pos == partition_point(sorted_rows, chunk_start.value, search)
      end_pos == partition_point(sorted_rows, chunk_end.value, search)
  IN IF profile = "debug" /\ (chunk_start.overflow \/ chunk_end.overflow)
     THEN Panic("attempt to multiply with overflow")
     ELSE IF start_pos > end_pos THEN Panic("slice index starts after its end")
     ELSE Ok(InsertRows(filter, sorted_rows, chunk_size, start_pos, end_pos))

\* ChunkBloomFilter::may_contain_row(row) -> bool, as Ok(bool).  A chunk_size
\* of 0 (only a deserialized index can have it) makes the division panic.
may_contain_row(cbf, row) ==
  IF cbf.chunk_size = U64Zero THEN Panic("attempt to divide by zero")
  ELSE LET dm == U64DivModWord(row, cbf.chunk_size)
       IN IF U64Lt(dm.q, U64FromInt(Len(cbf.chunk_filters)))
          THEN Ok(BloomFilter_contains(cbf.chunk_filters[U64ToInt(dm.q) + 1], dm.r))
          ELSE Ok(FALSE)

\* for row in range_start..range_end { if filter.contains(row % chunk_size) .. }
RECURSIVE RangeHit(_, _, _, _)
RangeHit(filter, chunk_size, row, range_end) ==
  IF ~U64Lt(row, range_end) THEN FALSE
  ELSE \/ BloomFilter_contains(filter, U64DivModWord(row, chunk_size).r)
       \/ RangeHit(filter, chunk_size, U64Add(row, U64FromInt(1)).value, range_end)

U64Min(a, b) == IF U64Le(a, b) THEN a ELSE b

U64Max(a, b) == IF U64Le(a, b) THEN b ELSE a

\* ChunkBloomFilter::may_contain_range(start_row, end_row) -> Vec<usize>, as
\* Ok(ids).  `chunk_idx * chunk_size` and `(chunk_idx + 1) * chunk_size`
\* panic on overflow in a build with overflow checks and wrap otherwise; the
\* indexed parallel iterator collects in the order of chunk_range.
may_contain_range(cbf, start_row, end_row, profile) ==
  IF cbf.chunk_size = U64Zero THEN Panic("attempt to divide by zero")
  ELSE
    LET start_chunk == U64DivModWord(start_row, cbf.chunk_size).q
        end_chunk == U64DivModWord(IF end_row = U64Zero THEN U64Zero
                                   ELSE U64Sub(end_row, U64FromInt(1)),
                                   cbf.chunk_size).q
        InRange(chunk_idx) == /\ U64Le(start_chunk, U64FromInt(chunk_idx))
                              /\ U64Le(U64FromInt(chunk_idx), end_chunk)
        chunk_range == SelectSeq([i \in 1..Len(cbf.chunk_filters) |-> i - 1], InRange)
        start_of(chunk_idx) == U64Mul(U64FromInt(chunk_idx), cbf.chunk_size)
        next_of(chunk_idx) == U64Mul(U64FromInt(chunk_idx + 1), cbf.chunk_size)
        Hit(chunk_idx) ==
          LET chunk_start == start_of(chunk_idx).value
              chunk_end == U64Min(next_of(chunk_idx).value, cbf.total_rows)
              range_start == U64Max(start_row, chunk_start)
              range_end == U64Min(end_row, chunk_end)
          IN RangeHit(cbf.chunk_filters[chunk_idx + 1], cbf.chunk_size,
                      range_start, range_end)
    IN IF /\ profile = "debug"
          /\ \E k \in 1..Len(chunk_range) :
               start_of(chunk_range[k]).overflow \/ next_of(chunk_range[k]).overflow
       THEN Panic("attempt to multiply with overflow")
       ELSE Ok(SelectSeq(chunk_range, Hit))

RECURSIVE Flatten(_)
Flatten(seqs) == IF seqs = <<>> THEN <<>> ELSE Head(seqs) \o Flatten(Tail(seqs))

\* ChunkBloomFilter::serialize
serialize(cbf) ==
  u32_to_le_bytes(as_u32(cbf.chunk_size))
  \o u32_to_le_bytes(as_u32(cbf.total_rows))
  \o u32_to_le_bytes(as_u32(U64FromInt(Len(cbf.chunk_filters))))
  \o Flatten([i \in 1..Len(cbf.chunk_filters) |->
                <<cbf.chunk_filters[i].hash_count>> \o cbf.chunk_filters[i].bits])

\* ChunkBloomFilter::deserialize(data); the error is a &'static str.
deserialize(data) ==
  IF Len(data) < 12 THEN Err("Invalid chunk bloom filter data")
  ELSE LET chunk_size == read_u32(data, 0)
           total_rows == read_u32(data, 4)
           num_chunks == read_u32(data, 8)
           \* the loop fails at the first chunk that does not fit
           complete == \A k \in 0..(Len(data) \div 9) :
                         U64Lt(U64FromInt(k), num_chunks) => 12 + (9 * k) + 9 <= Len(data)
       IN IF ~complete THEN Err("Invalid chunk bloom filter data")
          ELSE Ok([chunk_filters |->
                     [i \in 1..U64ToInt(num_chunks) |->
                        BloomFilter_from_bits(8,
                          SubSeq(data, 12 + (9 * (i - 1)) + 2, 12 + (9 * (i - 1)) + 9),
                          data[12 + (9 * (i - 1)) + 1])],
                   chunk_size |-> chunk_size,
                   total_rows |-> total_rows])

(***************************************************************************)
(* Element values.  A value of the element type T is modelled by a small   *)
(* positive integer n: the integer n for the four integer types and the    *)
(* float n.0 for f32 and f64.  T::to_le_bytes gives its little-endian      *)
(* two's-complement or IEEE-754 bytes; the reader, which reinterprets the  *)
(* mapped bytes as [T], yields values as their size_of::<T>() bytes.       *)
(***************************************************************************)
RECURSIVE Log2Floor(_)
Log2Floor(n) == IF n < 2 THEN 0 ELSE 1 + Log2Floor(n \div 2)

\* The low four little-endian bytes of a non-negative integer below 2^31.
LeBytes4(n) == <<n % 256, (n \div 256) % 256, (n \div 65536) % 256, (n \div 16777216) % 256>>

\* IEEE-754 single precision bit pattern of the float n.0, n >= 1.
F32Bits(n) ==
  LET e == Log2Floor(n)
  IN ((127 + e) * (2 ^ 23)) + ((n - (2 ^ e)) * (2 ^ (23 - e)))

\* The upper 32 bits of the double precision bit pattern of n.0, n >= 1
\* (the lower 32 bits are zero for n < 2^20).
F64BitsHigh(n) ==
  LET e == Log2Floor(n)
  IN ((1023 + e) * (2 ^ 20)) + ((n - (2 ^ e)) * (2 ^ (20 - e)))

\* <T as MatrixElement>::to_le_bytes(value)
value_to_le_bytes(t, n) ==
  IF t = "F32" THEN LeBytes4(F32Bits(n))
  ELSE IF t = "F64" THEN <<0, 0, 0, 0>> \o LeBytes4(F64BitsHigh(n))
  ELSE IF t \in {"I32", "U32"} THEN LeBytes4(n)
  ELSE LeBytes4(n) \o <<0, 0, 0, 0>>

\* MatrixElement::to_array_value: the ArrayValue variant carrying the value.
ArrayVariant(t) ==
  IF t = "F32" THEN "Float32" ELSE IF t = "F64" THEN "Float64"
  ELSE IF t = "I32" THEN "Int32" ELSE IF t = "I64" THEN "Int64"
  ELSE IF t = "U32" THEN "UInt32" ELSE "UInt64"

to_array_value(t, bits) == [variant |-> ArrayVariant(t), bits |-> bits]

(***************************************************************************)
(* bspc/src/mmap_backend/file_io.rs: the writer.                           *)
(***************************************************************************)
Zeros(n) == [i \in 1..n |-> 0]

\* The rows left after collapsing each run of equal consecutive rows.
RECURSIVE unique_rows(_)
unique_rows(rows) ==
  IF Len(rows) <= 1 THEN rows
  ELSE LET rest == unique_rows(Tail(rows))
       IN IF rows[1] = rows[2] THEN rest ELSE <<rows[1]>> \o rest

\* create_bloom_filter(sparse_elements, nrows, config)
create_bloom_filter(sparse_elements, nrows, chunk_size, search) ==
  bulk_insert_sorted(
    ChunkBloomFilter_new(nrows, U64FromInt(chunk_size)),
    unique_rows([i \in 1..Len(sparse_elements) |-> sparse_elements[i].row]),
    search)

\* The three byte streams the serialization workers produce, concatenated in
\* chunk order, which is element order.
values_stream(t, elems) ==
  Flatten([i \in 1..Len(elems) |-> value_to_le_bytes(t, elems[i].value)])

\* Faulty variant of index_stream: indices are written as u16, then padded.
index_stream_u16(ids) ==
  Flatten([i \in 1..Len(ids) |-> <<ids[i][1] % 256, ids[i][1] \div 256, 0, 0>>])

\* (row as u32).to_le_bytes() for every element, resp. col.
index_stream(ids) ==
  Flatten([i \in 1..Len(ids) |-> u32_to_le_bytes(as_u32(ids[i]))])

\* BspcFile::write_sparse_matrix: Ok(file contents), or the panic of
\* par_chunks(0) when there are no elements (nnz.div_ceil(num_threads) = 0),
\* which unwinds before the file is created.
write_sparse_matrix(t, nrows, ncols, elems, chunk_size, search) ==
  LET nnz == Len(elems)
      layout == FileLayout_calculate(t, nnz)
      bloom_filter_data == serialize(create_bloom_filter(elems, nrows, chunk_size, search))
      header == writer_header(t, nrows, ncols, nnz, Len(bloom_filter_data))
      header_bytes == to_bytes(header)
  IN IF nnz = 0 THEN Panic("chunk_size must not be zero")
     ELSE Ok(header_bytes
             \o Zeros(layout.values_offset - Len(header_bytes))
             \o values_stream(t, elems)
             \o Zeros(layout.indices_0_offset - (layout.values_offset + layout.values_size))
             \o index_stream([i \in 1..nnz |-> elems[i].row])
             \o Zeros(layout.indices_1_offset - (layout.indices_0_offset + layout.indices_0_size))
             \o index_stream([i \in 1..nnz |-> elems[i].col])
             \o bloom_filter_data)

(***************************************************************************)
(* bspc/src/mmap_backend/mmap_core.rs: MmapMatrix::<T>::from_file.         *)
(* The mapping is page aligned, so the alignment of a pointer into it is   *)
(* the alignment of its file offset.                                       *)
(***************************************************************************)
\* Builds with and without overflow checks (`start + size` panics or wraps).
Profiles == {"debug", "release"}

\* w % a for a in {4, 8}, which divide 2^16.
U64ModSmall(w, a) == w[1] % a

\* The bytes [start, end) of the file (zero-based, end exclusive).
Region(file, start, end) == SubSeq(file, start + 1, end)

\* The typed view over a region: its elements, each as `size` bytes.
TypedView(bytes, size) ==
  [i \in 1..(Len(bytes) \div size) |-> SubSeq(bytes, ((i - 1) * size) + 1, i * size)]

\* The u32 view over a region, each index as a word.
U32View(bytes) == [i \in 1..(Len(bytes) \div 4) |-> read_u32(bytes, (i - 1) * 4)]

\* header.chunk_bloom_filter_region().and_then(..).and_then(deserialize.ok()):
\* None, a panic, or Some(the loaded index).  The addition `start + size` is
\* unchecked: on overflow a debug build panics; a release build wraps, and
\* then either the wrapped end is within the file and the slice start..end
\* with start > end panics, or it is beyond the file and the region is
\* ignored.
loaded_bloom_filter(file, header, profile) ==
  IF header.bloom_filter_offset = U64Zero \/ header.bloom_filter_size = U64Zero
  THEN None
  ELSE LET end == U64Add(header.bloom_filter_offset, header.bloom_filter_size)
           fits == U64Le(end.value, U64FromInt(Len(file)))
       IN IF end.overflow
          THEN (IF profile = "debug" \/ fits THEN Panic("bloom filter region: start + size")
                ELSE None)
          ELSE IF ~fits THEN None
          ELSE LET d == deserialize(Region(file, U64ToInt(header.bloom_filter_offset),
                                           U64ToInt(end.value)))
               IN IF d.ok THEN Some(d.value) ELSE None

\* The chunk size from_file rebuilds the index with.
REBUILD_CHUNK_SIZE == 100000

\* The index from_file builds when none was loaded (mmap_core.rs 291-305).
rebuilt_bloom_filter(header, row_indices, search) ==
  bulk_insert_sorted(ChunkBloomFilter_new(header.nrows, U64FromInt(REBUILD_CHUNK_SIZE)),
                     unique_rows(row_indices), search)

\* Faulty variant of from_file_checked: the mapped views are swapped.
from_file_swapped(file, header, t, bloom, search) ==
  LET values == TypedView(Region(file, U64ToInt(header.values_offset),
                                 U64ToInt(header.values_offset) + U64ToInt(header.values_size)),
                          size_bytes(t))
      col_indices == U32View(Region(file, U64ToInt(header.indices_0_offset),
                              U64ToInt(header.indices_0_offset) + U64ToInt(header.indices_0_size)))
      row_indices == U32View(Region(file, U64ToInt(header.indices_1_offset),
                              U64ToInt(header.indices_1_offset) + U64ToInt(header.indices_1_size)))
  IN Ok([header |-> header, t |-> t, values |-> values,
         row_indices |-> row_indices, col_indices |-> col_indices,
         chunk_bloom_filter |-> IF bloom = None
                                THEN rebuilt_bloom_filter(header, row_indices, search)
                                ELSE bloom.value])

\* from_file after the three regions were found to lie within the file and
\* the bloom region was loaded (mmap_core.rs 245-308).
from_file_checked(file, header, t, bloom, search) ==
  LET values_bytes == Region(file, U64ToInt(header.values_offset),
                             U64ToInt(header.values_offset) + U64ToInt(header.values_size))
      row_indices_bytes == Region(file, U64ToInt(header.indices_0_offset),
                             U64ToInt(header.indices_0_offset) + U64ToInt(header.indices_0_size))
      col_indices_bytes == Region(file, U64ToInt(header.indices_1_offset),
                             U64ToInt(header.indices_1_offset) + U64ToInt(header.indices_1_size))
      values == TypedView(values_bytes, size_bytes(t))
      row_indices == U32View(row_indices_bytes)
      col_indices == U32View(col_indices_bytes)
  IN IF U64ModSmall(header.values_offset, align_of(t)) # 0
     THEN InvalidState("Values array not properly aligned")
     ELSE IF U64ModSmall(header.indices_0_offset, 4) # 0
     THEN InvalidState("Row indices array not properly aligned")
     ELSE IF U64ModSmall(header.indices_1_offset, 4) # 0
     THEN InvalidState("Column indices array not properly aligned")
     ELSE IF Len(values_bytes) % size_bytes(t) # 0
     THEN InvalidState("Array size not aligned to element size")
     ELSE IF Len(row_indices_bytes) % 4 # 0 \/ Len(col_indices_bytes) % 4 # 0
     THEN InvalidState("Array size not aligned to u32 size")
     ELSE IF Len(values) # Len(row_indices) \/ Len(values) # Len(col_indices)
     THEN InvalidState("Array lengths don't match")
     ELSE IF U64FromInt(Len(values)) # header.nnz
     THEN InvalidState("Array length doesn't match nnz")
     ELSE Ok([header |-> header, t |-> t, values |-> values,
              row_indices |-> row_indices, col_indices |-> col_indices,
              chunk_bloom_filter |-> IF bloom = None
                                     THEN rebuilt_bloom_filter(header, row_indices, search)
                                     ELSE bloom.value])

\* MmapMatrix::<T>::from_file on a file with the given contents.
from_file(file, t, profile, search) ==
  IF Len(file) < SIZE THEN InvalidState("File too small for header")
  ELSE LET parsed == from_bytes(SubSeq(file, 1, SIZE))
           header == parsed.value
           values_end == U64Add(header.values_offset, header.values_size)
           row_indices_end == U64Add(header.indices_0_offset, header.indices_0_size)
           col_indices_end == U64Add(header.indices_1_offset, header.indices_1_size)
           len == U64FromInt(Len(file))
           bloom == loaded_bloom_filter(file, header, profile)
       IN IF ~parsed.ok THEN InvalidState("Invalid BSPC header format")
          ELSE IF values_end.overflow
          THEN InvalidState("Integer overflow in values calculation")
          ELSE IF row_indices_end.overflow
          THEN InvalidState("Integer overflow in row indices calculation")
          ELSE IF col_indices_end.overflow
          THEN InvalidState("Integer overflow in column indices calculation")
          ELSE IF \/ U64Lt(len, values_end.value)
                  \/ U64Lt(len, row_indices_end.value)
                  \/ U64Lt(len, col_indices_end.value)
          THEN InvalidState("Arrays extend beyond file")
          ELSE IF ~bloom.ok /\ bloom.err = "PANIC" THEN bloom
          ELSE from_file_checked(file, header, t, bloom, search)

\* BspcFile::read_matrix_with_bloom_filter (file_io.rs 109-135): the dynamic
\* reader dispatches on the header's data_type byte.
read_matrix_with_bloom_filter(file, profile, search) ==
  IF Len(file) < SIZE THEN IoError("Failed to read header")
  ELSE LET parsed == from_bytes(SubSeq(file, 1, SIZE))
       IN IF ~parsed.ok THEN InvalidState("Invalid BSPC header format")
          ELSE from_file(file,
                         unwrap_or(DataType_from_u8(parsed.value.data_type), "F64"),
                         profile, search)

\* MmapMatrix::format() and ::data_type() (mmap_core.rs 330-335).
format(m) == unwrap_or(MatrixFormat_from_u8(m.header.format_type), "Coo")
data_type(m) == unwrap_or(DataType_from_u8(m.header.data_type), "F64")

(***************************************************************************)
(* bspc/src/mmap_backend.rs: the queries of MmapMatrix<T> and the          *)
(* SubmatrixView built from it.  `m` is an opened reader.                   *)
(***************************************************************************)
nrows(m) == m.header.nrows
ncols(m) == m.header.ncols

\* The loop of get_element from entry i on.
RECURSIVE get_element_from(_, _, _, _)
get_element_from(m, row, col, i) ==
  IF i > Len(m.values) THEN Ok(None)
  ELSE LET file_row == m.row_indices[i]
           file_col == m.col_indices[i]
       IN IF ~U64Lt(file_row, nrows(m))
          THEN InvalidState("Corrupted data: row index exceeds matrix dimensions")
          ELSE IF ~U64Lt(file_col, ncols(m))
          THEN InvalidState("Corrupted data: column index exceeds matrix dimensions")
          ELSE IF file_row = row /\ file_col = col
          THEN Ok(Some(to_array_value(m.t, m.values[i])))
          ELSE get_element_from(m, row, col, i + 1)

\* MmapMatrix::get_element(row, col)
get_element(m, row, col) ==
  IF ~U64Lt(row, nrows(m)) THEN InvalidState("Row index out of bounds")
  ELSE IF ~U64Lt(col, ncols(m)) THEN InvalidState("Column index out of bounds")
  ELSE IF Len(m.values) # Len(m.row_indices) \/ Len(m.values) # Len(m.col_indices)
  THEN InvalidState("Corrupted data: array lengths don't match")
  ELSE get_element_from(m, row, col, 1)

\* The entries 0..values.len() an iterator passes over, in file order.
Entries(m) == [i \in 1..Len(m.values) |-> i]

\* Faulty variant of row_view: the filter compares the column stream.
row_view_by_col(m, row) ==
  IF ~U64Lt(row, nrows(m)) THEN InvalidState("Row index out of bounds")
  ELSE LET keep(i) == m.col_indices[i] = row
           kept == SelectSeq(Entries(m), keep)
       IN Ok([k \in 1..Len(kept) |-> <<m.col_indices[kept[k]], m.values[kept[k]]>>])

\* MmapMatrix::row_view(row): Ok(the (file_col, value) items it yields).
row_view(m, row) ==
  IF ~U64Lt(row, nrows(m)) THEN InvalidState("Row index out of bounds")
  ELSE LET keep(i) == /\ m.row_indices[i] = row
                      /\ U64Lt(m.row_indices[i], nrows(m))
                      /\ U64Lt(m.col_indices[i], ncols(m))
           kept == SelectSeq(Entries(m), keep)
       IN Ok([k \in 1..Len(kept) |-> <<m.col_indices[kept[k]], m.values[kept[k]]>>])

\* MmapMatrix::col_view(col): Ok(the (file_row, value) items it yields).
col_view(m, col) ==
  IF ~U64Lt(col, ncols(m)) THEN InvalidState("Column index out of bounds")
  ELSE LET keep(i) == /\ m.col_indices[i] = col
                      /\ U64Lt(m.row_indices[i], nrows(m))
                      /\ U64Lt(m.col_indices[i], ncols(m))
           kept == SelectSeq(Entries(m), keep)
       IN Ok([k \in 1..Len(kept) |-> <<m.row_indices[kept[k]], m.values[kept[k]]>>])

\* MmapMatrix::row_range_view(start_row, end_row): Ok(the (row, col, value)
\* items it yields).
row_range_view(m, start_row, end_row) ==
  IF \/ ~U64Lt(start_row, nrows(m))
     \/ U64Lt(nrows(m), end_row)
     \/ ~U64Lt(start_row, end_row)
  THEN InvalidState("Invalid row range")
  ELSE LET keep(i) == /\ U64Le(start_row, m.row_indices[i])
                      /\ U64Lt(m.row_indices[i], end_row)
                      /\ U64Lt(m.row_indices[i], nrows(m))
                      /\ U64Lt(m.col_indices[i], ncols(m))
           kept == SelectSeq(Entries(m), keep)
       IN Ok([k \in 1..Len(kept) |->
                <<m.row_indices[kept[k]], m.col_indices[kept[k]], m.values[kept[k]]>>])

\* The loop of SubmatrixView::new from entry i on; `elements` is the HashMap
\* so far, as a set of [key, value] with one value per key.
RECURSIVE SubmatrixView_fill(_, _, _, _, _, _, _)
SubmatrixView_fill(m, rows_start, rows_end, cols_start, cols_end, i, elements) ==
  IF i > Len(m.values) THEN Ok(elements)
  ELSE LET file_row == m.row_indices[i]
           file_col == m.col_indices[i]
           key == <<U64Sub(file_row, rows_start), U64Sub(file_col, cols_start)>>
       IN IF ~U64Lt(file_row, nrows(m))
          THEN InvalidState("Corrupted data: row index exceeds matrix dimensions")
          ELSE IF ~U64Lt(file_col, ncols(m))
          THEN InvalidState("Corrupted data: column index exceeds matrix dimensions")
          ELSE IF /\ U64Le(rows_start, file_row) /\ U64Lt(file_row, rows_end)
                  /\ U64Le(cols_start, file_col) /\ U64Lt(file_col, cols_end)
          THEN SubmatrixView_fill(m, rows_start, rows_end, cols_start, cols_end, i + 1,
                 {e \in elements : e.key # key} \cup {[key |-> key, value |-> m.values[i]]})
          ELSE SubmatrixView_fill(m, rows_start, rows_end, cols_start, cols_end, i + 1,
                                  elements)

\* SubmatrixView::new(matrix, rows_start..rows_end, cols_start..cols_end),
\* which MmapMatrix::submatrix_view forwards to.
SubmatrixView_new(m, rows_start, rows_end, cols_start, cols_end) ==
  IF U64Lt(nrows(m), rows_end) THEN InvalidState("Row range exceeds matrix dimensions")
  ELSE IF U64Lt(ncols(m), cols_end)
  THEN InvalidState("Column range exceeds matrix dimensions")
  ELSE IF ~U64Lt(rows_start, rows_end) \/ ~U64Lt(cols_start, cols_end)
  THEN InvalidState("Empty range not allowed")
  ELSE SubmatrixView_fill(m, rows_start, rows_end, cols_start, cols_end, 1, {})

submatrix_view(m, rows_start, rows_end, cols_start, cols_end) ==
  SubmatrixView_new(m, rows_start, rows_end, cols_start, cols_end)

\* SubmatrixView::get(row, col) on the HashMap of a view.
SubmatrixView_get(elements, row, col) ==
  IF \E e \in elements : e.key = <<row, col>>
  THEN Some((CHOOSE e \in elements : e.key = <<row, col>>).value)
  ELSE None

(***************************************************************************)
(* bspc/src/metadata.rs: the metadata section, its view and its builder.   *)
(* A window is the byte sequence of the section; offsets in it are         *)
(* zero-based.  The two label arrays are handled by the same code up to    *)
(* the header fields read and the messages, here selected by side.         *)
(***************************************************************************)
\* b"META"
METADATA_MAGIC == <<77, 69, 84, 65>>
METADATA_VERSION == 1
\* BspcMetadataHeader::SIZE
METADATA_HEADER_SIZE == 40
\* LabelArray::HEADER_SIZE
LABEL_HEADER_SIZE == 8
\* Largest stride LabelArray::from_bytes accepts.
MAX_LABEL_STRIDE == 65536

Sides == {"row", "col"}

LabelMessages ==
  [row |-> [absent |-> "No row labels present",
            metadata |-> "Row labels extend beyond metadata",
            data |-> "Row labels extend beyond data",
            index |-> "Row index out of bounds",
            label |-> "Row label extends beyond data",
            stride |-> "Row label exceeds stride"],
   col |-> [absent |-> "No column labels present",
            metadata |-> "Column labels extend beyond metadata",
            data |-> "Column labels extend beyond data",
            index |-> "Column index out of bounds",
            label |-> "Column label extends beyond data",
            stride |-> "Column label exceeds stride"]]

\* BspcMetadataHeader::new
BspcMetadataHeader_new ==
  [version |-> METADATA_VERSION,
   row_labels_offset |-> U64Zero, row_labels_size |-> U64Zero,
   col_labels_offset |-> U64Zero, col_labels_size |-> U64Zero]

\* BspcMetadataHeader::to_bytes
BspcMetadataHeader_to_bytes(h) ==
  METADATA_MAGIC \o <<h.version, 0, 0, 0>>
    \o to_le_bytes(h.row_labels_offset) \o to_le_bytes(h.row_labels_size)
    \o to_le_bytes(h.col_labels_offset) \o to_le_bytes(h.col_labels_size)

\* BspcMetadataHeader::from_bytes
BspcMetadataHeader_from_bytes(bytes) ==
  IF Len(bytes) < METADATA_HEADER_SIZE THEN InvalidState("Metadata header too small")
  ELSE IF SubSeq(bytes, 1, 4) # METADATA_MAGIC
  THEN InvalidState("Invalid metadata magic bytes")
  ELSE IF bytes[5] > METADATA_VERSION THEN InvalidState("Unsupported metadata version")
  ELSE Ok([version |-> bytes[5],
           row_labels_offset |-> read_u64(bytes, 8),
           row_labels_size |-> read_u64(bytes, 16),
           col_labels_offset |-> read_u64(bytes, 24),
           col_labels_size |-> read_u64(bytes, 32)])

\* header.row_labels_offset / header.col_labels_offset
labels_offset(header, side) ==
  IF side = "row" THEN header.row_labels_offset ELSE header.col_labels_offset

\* header.row_labels_size / header.col_labels_size
labels_size(header, side) ==
  IF side = "row" THEN header.row_labels_size ELSE header.col_labels_size

\* LabelArray::from_bytes; count and stride are u32 words.
LabelArray_from_bytes(bytes) ==
  IF Len(bytes) < LABEL_HEADER_SIZE THEN InvalidState("Label array header too small")
  ELSE LET count == read_u32(bytes, 0)
           stride == read_u32(bytes, 4)
       IN IF stride = U64Zero \/ U64Lt(U64FromInt(MAX_LABEL_STRIDE), stride)
          THEN InvalidState("Invalid label stride")
          ELSE Ok([count |-> count, stride |-> stride])

\* LabelArray::to_bytes
LabelArray_to_bytes(count, stride) ==
  u32_to_le_bytes(as_u32(count)) \o u32_to_le_bytes(as_u32(stride))

\* MetadataView::new(data): `offset as usize + size as usize` panics on
\* overflow in a build with overflow checks and wraps otherwise.
MetadataView_new(data, profile) ==
  LET parsed == BspcMetadataHeader_from_bytes(data)
      header == parsed.value
      row_end == U64Add(header.row_labels_offset, header.row_labels_size)
      col_end == U64Add(header.col_labels_offset, header.col_labels_size)
  IN IF ~parsed.ok THEN parsed
     ELSE IF row_end.overflow /\ profile = "debug"
     THEN Panic("attempt to add with overflow")
     ELSE IF U64Lt(U64FromInt(Len(data)), row_end.value)
     THEN InvalidState(LabelMessages.row.metadata)
     ELSE IF col_end.overflow /\ profile = "debug"
     THEN Panic("attempt to add with overflow")
     ELSE IF U64Lt(U64FromInt(Len(data)), col_end.value)
     THEN InvalidState(LabelMessages.col.metadata)
     ELSE Ok([data |-> data, header |-> header])

\* `&data[start..end]` of a label region with end = start + size: Ok(slice),
\* the error `beyond`, or the panic of the addition or of a slice whose end
\* is below its start.
labels_data(data, header, side, beyond, profile) ==
  LET start == labels_offset(header, side)
      end == U64Add(start, labels_size(header, side))
  IN IF end.overflow /\ profile = "debug" THEN Panic("attempt to add with overflow")
     ELSE IF U64Lt(U64FromInt(Len(data)), end.value) THEN InvalidState(beyond)
     ELSE IF U64Lt(end.value, start)
     THEN Panic("slice index starts after its end")
     ELSE Ok(SubSeq(data, U64ToInt(start) + 1, U64ToInt(end.value)))

\* MetadataView::row_labels_array / col_labels_array
labels_array(view, side, profile) ==
  IF labels_size(view.header, side) = U64Zero
  THEN InvalidState(LabelMessages[side].absent)
  ELSE LET region == labels_data(view.data, view.header, side,
                                 LabelMessages[side].data, profile)
       IN IF ~region.ok THEN region ELSE LabelArray_from_bytes(region.value)

\* MetadataView::row_label(idx) / col_label(idx), idx a u32 below 2^31
label(view, side, idx, profile) ==
  LET labels == labels_array(view, side, profile)
      stride == U64ToInt(labels.value.stride)
      start == U64ToInt(labels_offset(view.header, side)) + LABEL_HEADER_SIZE
                 + (idx * stride)
      end == start + stride
  IN IF ~labels.ok THEN labels
     ELSE IF ~U64Lt(U64FromInt(idx), labels.value.count)
     THEN InvalidState(LabelMessages[side].index)
     ELSE IF end > Len(view.data) THEN InvalidState(LabelMessages[side].label)
     ELSE Ok(SubSeq(view.data, start + 1, end))

row_label(view, idx, profile) == label(view, "row", idx, profile)

col_label(view, idx, profile) == label(view, "col", idx, profile)

\* MmapMatrix::row_label(idx) / col_label(idx) on Some(metadata_bytes): the
\* label is cut from the bytes of its own region.
MmapMatrix_label(metadata_bytes, side, idx, profile) ==
  LET parsed == BspcMetadataHeader_from_bytes(metadata_bytes)
      header == parsed.value
      region == labels_data(metadata_bytes, header, side,
                            LabelMessages[side].metadata, profile)
      labels == LabelArray_from_bytes(region.value)
      stride == U64ToInt(labels.value.stride)
      label_start == LABEL_HEADER_SIZE + (idx * stride)
      label_end == label_start + stride
  IN IF ~parsed.ok THEN parsed
     ELSE IF labels_size(header, side) = U64Zero THEN Ok(None)
     ELSE IF ~region.ok THEN region
     ELSE IF ~labels.ok THEN labels
     ELSE IF ~U64Lt(U64FromInt(idx), labels.value.count)
     THEN InvalidState(LabelMessages[side].index)
     ELSE IF label_end > Len(region.value) THEN InvalidState(LabelMessages[side].label)
     ELSE Ok(Some(SubSeq(region.value, label_start + 1, label_end)))

\* MetadataBuilder::new(label_stride)
MetadataBuilder_new(label_stride) ==
  [row_labels |-> <<>>, col_labels |-> <<>>, label_stride |-> label_stride]

\* MetadataBuilder::with_row_labels / with_col_labels: Ok(builder), or the
\* error, after which the builder moved into the call is gone.
with_labels(builder, side, labels) ==
  IF \E i \in 1..Len(labels) : Len(labels[i]) > builder.label_stride
  THEN InvalidState(LabelMessages[side].stride)
  ELSE Ok(IF side = "row" THEN [builder EXCEPT !.row_labels = labels]
          ELSE [builder EXCEPT !.col_labels = labels])

\* Faulty variant of padded_label: the label is placed at the end of its slot.
padded_label_right(lbl, stride) ==
  [i \in 1..stride |-> IF i > stride - Len(lbl) THEN lbl[i - (stride - Len(lbl))] ELSE 0]

\* let mut padded_label = vec![0u8; stride]; padded_label[..label.len()].copy_from_slice(label)
padded_label(lbl, stride) ==
  [i \in 1..stride |-> IF i <= Len(lbl) THEN lbl[i] ELSE 0]

\* The label array build writes for a non-empty list of labels.
label_array_bytes(labels, stride) ==
  IF labels = <<>> THEN <<>>
  ELSE LabelArray_to_bytes(U64FromInt(Len(labels)), U64FromInt(stride))
       \o Flatten([i \in 1..Len(labels) |-> padded_label(labels[i], stride)])

\* MetadataBuilder::build
MetadataBuilder_build(builder) ==
  LET stride == builder.label_stride
      row_data_start == METADATA_HEADER_SIZE
      row_data_size == IF builder.row_labels = <<>> THEN 0
                       ELSE LABEL_HEADER_SIZE + (Len(builder.row_labels) * stride)
      col_data_start == row_data_start + row_data_size
      col_data_size == IF builder.col_labels = <<>> THEN 0
                       ELSE LABEL_HEADER_SIZE + (Len(builder.col_labels) * stride)
      header ==
        [BspcMetadataHeader_new EXCEPT
           !.row_labels_offset = IF builder.row_labels = <<>> THEN @
                                 ELSE U64FromInt(row_data_start),
           !.row_labels_size = IF builder.row_labels = <<>> THEN @
                               ELSE U64FromInt(row_data_size),
           !.col_labels_offset = IF builder.col_labels = <<>> THEN @
                                 ELSE U64FromInt(col_data_start),
           !.col_labels_size = IF builder.col_labels = <<>> THEN @
                               ELSE U64FromInt(col_data_size)]
  IN Ok(BspcMetadataHeader_to_bytes(header)
          \o label_array_bytes(builder.row_labels, stride)
          \o label_array_bytes(builder.col_labels, stride))

\* MetadataBuilder::new(stride).with_row_labels(rows)?.with_col_labels(cols)?.build()
build_metadata(stride, rows, cols) ==
  LET with_rows == with_labels(MetadataBuilder_new(stride), "row", rows)
      with_cols == with_labels(with_rows.value, "col", cols)
  IN IF ~with_rows.ok THEN with_rows
     ELSE IF ~with_cols.ok THEN with_cols
     ELSE MetadataBuilder_build(with_cols.value)

(***************************************************************************)
(* The writer taken apart: write_sparse_matrix as the steps a run of it    *)
(* goes through (file_io.rs 144-333).  The serialization workers and the   *)
(* bloom build run inside rayon::join; everything after it is awaited, one *)
(* operation at a time.                                                    *)
(***************************************************************************)
\* file_io.rs 168-177: the partition size handed to par_chunks.
par_chunk_size(nnz, num_threads) ==
  IF nnz > 50000000 THEN div_ceil(nnz, num_threads * 4)
  ELSE div_ceil(nnz, num_threads)

\* slice::par_chunks(chunk_size), file_io.rs 183-184: consecutive pieces of
\* chunk_size elements, the last one possibly shorter.
par_chunks(elems, chunk_size) ==
  [k \in 1..div_ceil(Len(elems), chunk_size) |->
     SubSeq(elems, (k - 1) * chunk_size + 1,
            IF k * chunk_size < Len(elems) THEN k * chunk_size ELSE Len(elems))]

\* The closure one worker runs on its piece (file_io.rs 185-210).
serialize_chunk(t, chunk) ==
  [values |-> values_stream(t, chunk),
   rows |-> index_stream([i \in 1..Len(chunk) |-> chunk[i].row]),
   cols |-> index_stream([i \in 1..Len(chunk) |-> chunk[i].col])]

\* collect::<Vec<_>>() on an indexed parallel iterator (file_io.rs 211-213):
\* the result of piece k lands in slot k, whenever its worker finishes.
collect(buffers, k, buffer) == [buffers EXCEPT ![k] = buffer]

\* A run whose workers have finished, whatever the bloom build does.
rendezvous_of_workers(w) == w.pending = {}

\* rayon::join returns (file_io.rs 180, 220-221): both closures have run to
\* their end, every worker's buffer is collected and the bloom index is
\* serialized.
rendezvous(w) == w.pending = {} /\ w.bloom # <<>>

\* The header of a run whose bloom offset leaves out the column indices.
run_header_bloom_at_indices(w) ==
  LET h == writer_header(w.input.t, w.input.nrows, w.input.ncols,
                         Len(w.input.elems), Len(w.bloom))
  IN [h EXCEPT !.bloom_filter_offset = h.indices_1_offset]

\* The header a run writes (file_io.rs 228-245).
run_header(w) ==
  writer_header(w.input.t, w.input.nrows, w.input.ncols,
                Len(w.input.elems), Len(w.bloom))

\* file.write_all(bytes).await on the run's file: the bytes go to the end of
\* the file; region names what the caller is writing.
write_all(w, region, bytes) ==
  [w EXCEPT !.disk = @ \o bytes,
            !.log = Append(@, [region |-> region, at |-> Len(w.disk),
                               len |-> Len(bytes)])]

\* The message each awaited operation's map_err attaches (file_io.rs 227,
\* 256, 263, 278, 289, 304, 319, 327, 330), by the step that awaits it.
failure_message(pc) ==
  CASE pc = "create" -> "Failed to create file"
    [] pc = "header" -> "Failed to write header"
    [] pc \in {"header_padding", "rows_padding", "cols_padding"} -> "Failed to write padding"
    [] pc = "values" -> "Failed to write values"
    [] pc = "rows" -> "Failed to write row indices"
    [] pc = "cols" -> "Failed to write column indices"
    [] pc = "bloom" -> "Failed to write bloom filter"
    [] pc = "flush" -> "Failed to flush file"

\* write_padding_async's arguments at each of the three gaps (file_io.rs
\* 251, 293-298, 308-313): [target_offset, current_pos].
padding_gap(w) ==
  LET layout == FileLayout_calculate(w.input.t, Len(w.input.elems))
  IN CASE w.pc = "header_padding" ->
            [target_offset |-> layout.values_offset, current_pos |-> SIZE]
       [] w.pc = "rows_padding" ->
            [target_offset |-> layout.indices_0_offset,
             current_pos |-> layout.values_offset + layout.values_size]
       [] w.pc = "cols_padding" ->
            [target_offset |-> layout.indices_1_offset,
             current_pos |-> layout.indices_0_offset + layout.indices_0_size]
       [] OTHER -> [target_offset |-> 0, current_pos |-> 0]

(***************************************************************************)
(* write_sparse_matrix_with_labels (file_io.rs 338-471): the matrix goes   *)
(* to a temporary file next to the target, then header, matrix regions and *)
(* metadata are copied and appended to the target.  Paths are [stem, ext]. *)
(***************************************************************************)
\* Path::with_extension: the extension is replaced, or added when there is
\* none.
with_extension(path, extension) == [path EXCEPT !.ext = extension]

\* A path with no file, and a file of the given bytes.
NoFile == [exists |-> FALSE, bytes |-> <<>>]
FileOf(bytes) == [exists |-> TRUE, bytes |-> bytes]

\* BspcHeader::set_metadata_region (header.rs 115-118).
set_metadata_region(h, offset, size) ==
  [h EXCEPT !.metadata_offset = offset, !.metadata_size = size]

\* The messages of the labelled writer's awaited operations (file_io.rs
\* 410-468), by the step that awaits them.
labels_failure_message(pc) ==
  CASE pc = "create" -> "Failed to create final file"
    [] pc = "header" -> "Failed to write updated header"
    [] pc = "copy" -> "Failed to read from temp file"
    [] pc = "padding" -> "Failed to get file position"
    [] pc = "metadata" -> "Failed to write metadata"
    [] pc = "flush" -> "Failed to flush file"
    [] pc = "remove" -> "Failed to remove temp file"

(***************************************************************************)
(* bspc-core/src/validation/parsing.rs: parse_range on a string given as   *)
(* its bytes.  usize is 64 bits wide.                                      *)
(***************************************************************************)
USIZE_MAX == <<65535, 65535, 65535, 65535>>

\* u8::is_ascii_digit.
is_ascii_digit(byte) == 48 <= byte /\ byte <= 57

\* str::find(char) for an ASCII char: the zero-based position of its first
\* occurrence.
find(str, ch) ==
  IF \E i \in 1..Len(str) : str[i] = ch
  THEN Some((CHOOSE i \in 1..Len(str) :
               str[i] = ch /\ \A j \in 1..(i - 1) : str[j] # ch) - 1)
  ELSE None

\* The loop of parse_usize from byte i on (parsing.rs 65-80).
RECURSIVE parse_usize_loop(_, _, _)
parse_usize_loop(str, i, result) ==
  IF i > Len(str) THEN Ok(result)
  ELSE IF ~is_ascii_digit(str[i]) THEN Err("InvalidRange")
  ELSE LET digit == U64FromInt(str[i] - 48)
       IN IF U64Lt(U64DivMod(U64Sub(USIZE_MAX, digit), 10).q, result)
          THEN Err("ArraySizeOverflow")
          ELSE parse_usize_loop(str, i + 1,
                                U64Add(U64Mul(result, U64FromInt(10)).value, digit).value)

\* parse_usize (parsing.rs 56-81).
parse_usize(str) ==
  IF str = <<>> THEN Err("InvalidRange") ELSE parse_usize_loop(str, 1, U64Zero)

\* What parse_range does once it has found its separator at the zero-based
\* position pos (parsing.rs 21-31 and 36-46).
parse_endpoints(start, end) ==
  IF ~start.ok THEN start
  ELSE IF ~end.ok THEN end
  ELSE IF U64Lt(end.value, start.value) THEN Err("InvalidRange")
  ELSE Ok([start |-> start.value, end |-> end.value])

\* parse_range (parsing.rs 13-51): the first colon separates, else the
\* first dash.
parse_range(range_str) ==
  LET colon_pos == find(range_str, 58)
      dash_pos == find(range_str, 45)
      pos == IF colon_pos.ok THEN colon_pos.value ELSE dash_pos.value
  IN IF range_str = <<>> THEN Err("InvalidRange")
     ELSE IF ~colon_pos.ok /\ ~dash_pos.ok THEN Err("InvalidRange")
     ELSE parse_endpoints(parse_usize(SubSeq(range_str, 1, pos)),
                          parse_usize(SubSeq(range_str, pos + 2, Len(range_str))))

(***************************************************************************)
(* bspc-core/src/validation/format.rs: alignment of offsets.  `+` and `-`  *)
(* on usize panic on overflow in a build with overflow checks and wrap in  *)
(* one without.                                                            *)
(***************************************************************************)
U64And(a, b) == <<BitAnd(a[1], b[1]), BitAnd(a[2], b[2]), BitAnd(a[3], b[3]), BitAnd(a[4], b[4])>>

U64Not(a) == <<LIMB - 1 - a[1], LIMB - 1 - a[2], LIMB - 1 - a[3], LIMB - 1 - a[4]>>

usize_add(a, b, profile) ==
  IF U64Add(a, b).overflow /\ profile = "debug"
  THEN Panic("attempt to add with overflow")
  ELSE Ok(U64Add(a, b).value)

usize_sub(a, b, profile) ==
  IF U64Lt(a, b) /\ profile = "debug"
  THEN Panic("attempt to subtract with overflow")
  ELSE Ok(U64Sub(a, b))

\* The last steps of align_to_boundary once offset + boundary is known.
align_from_sum(sum, boundary, profile) ==
  IF ~sum.ok THEN sum
  ELSE IF ~usize_sub(sum.value, U64FromInt(1), profile).ok
  THEN usize_sub(sum.value, U64FromInt(1), profile)
  ELSE IF ~usize_sub(boundary, U64FromInt(1), profile).ok
  THEN usize_sub(boundary, U64FromInt(1), profile)
  ELSE Ok(U64And(usize_sub(sum.value, U64FromInt(1), profile).value,
                 U64Not(usize_sub(boundary, U64FromInt(1), profile).value)))

\* align_to_boundary (format.rs 12-14): (offset + boundary - 1) & !(boundary - 1).
align_to_boundary(offset, boundary, profile) ==
  align_from_sum(usize_add(offset, boundary, profile), boundary, profile)

\* The subtraction of calculate_padding once aligned is known.
padding_from(aligned, offset, profile) ==
  IF ~aligned.ok THEN aligned ELSE usize_sub(aligned.value, offset, profile)

\* calculate_padding (format.rs 38-41).
calculate_padding(offset, boundary, profile) ==
  padding_from(align_to_boundary(offset, boundary, profile), offset, profile)

(***************************************************************************)
(* State.  Every specification below drives its own variables and leaves   *)
(* the others at their initial, idle value.                                *)
(***************************************************************************)
VARIABLES
  bf,        \* leaf filter under test: [n, bits, hash_count]
  inserted,  \* values inserted into bf since it was last cleared
  probe,     \* last contains() call on bf: [value, result], or <<>>
  cleared,   \* values the last clear() removed from bf, until the next insert
  hdr,       \* the BspcHeader value handed to an encoder
  enc,       \* which encoder filled buf: "none", "to_bytes", "to_bytes_array"
  cut,       \* what was done to buf after encoding: "whole", "short", "long"
  buf,       \* the byte buffer
  dec,       \* last decode of buf: [by, res], or <<>>
  lay,       \* a layout computation: [t, nnz, k, stage, layout, header, metadata_offset]
  input,     \* what the writer is called with: [t, nrows, ncols, elems, chunk_size]
  file,      \* outcome of the write: <<>> before, then Ok(file bytes) or a panic
  edit,      \* what was done to the file after it was written: "none" or the edit
  reader,    \* outcome of opening the file: <<>> before, then Ok(reader) or an error
  out,       \* last query on the reader: [op, args, res], or <<>>
  wr,        \* a run of the writer, step by step, or <<>>
  meta,      \* a metadata section being built and viewed, or <<>>
  cb,        \* a chunked bloom index under test, or <<>>
  call       \* a call of a function of the validation helpers: [fn, args, res], or <<>>

bloomVars == <<bf, inserted, probe, cleared>>
headerVars == <<hdr, enc, cut, buf, dec>>
layoutVars == <<lay>>
fileVars == <<input, file, edit, reader, out>>
auxVars == <<wr, meta, cb, call>>
vars ==
  <<bf, inserted, probe, cleared, hdr, enc, cut, buf, dec, lay,
    input, file, edit, reader, out, wr, meta, cb, call>>

BloomIdle == bf = <<>> /\ inserted = {} /\ probe = <<>> /\ cleared = {}
HeaderIdle == hdr = <<>> /\ enc = "none" /\ cut = "whole" /\ buf = <<>> /\ dec = <<>>
LayoutIdle == lay = <<>>
FileIdle == input = <<>> /\ file = <<>> /\ edit = "none" /\ reader = <<>> /\ out = <<>>
AuxIdle == wr = <<>> /\ meta = <<>> /\ cb = <<>> /\ call = <<>>

(***************************************************************************)
(* SpecBloom: a single BloomFilter<N> driven by insert, contains, clear.   *)
(***************************************************************************)
\* The three instantiated sizes: BloomFilter64, BloomFilter256, BloomFilter1024.
BloomSizes == {8, 32, 128}

\* Hash counts: with_hash_count and from_bits accept any u8.
BloomHashCounts == (0..MaxHashCount) \cup {8, 9}

\* Values inserted and probed: small ones, 2^32, and usize::MAX.
BloomKeys ==
  {U64FromInt(i) : i \in 0..MaxKey} \cup {<<0, 0, 1, 0>>, <<65535, 65535, 65535, 65535>>}

BloomInit ==
  /\ \E n \in BloomSizes :
       \/ \E k \in BloomHashCounts : bf = BloomFilter_with_hash_count(n, k)
       \/ \E e \in {0, 1, 100, 100000} : bf = BloomFilter_new(n, e)
  /\ inserted = {}
  /\ probe = <<>>
  /\ cleared = {}
  /\ HeaderIdle /\ LayoutIdle /\ FileIdle /\ AuxIdle

BloomInsert ==
  \E v \in BloomKeys :
    /\ bf' = BloomFilter_insert(bf, v)
    /\ inserted' = inserted \cup {v}
    /\ probe' = <<>>
    /\ cleared' = {}
    /\ UNCHANGED <<headerVars, layoutVars, fileVars, auxVars>>

BloomContains ==
  \E v \in BloomKeys :
    /\ probe' = [value |-> v, result |-> BloomFilter_contains(bf, v)]
    /\ UNCHANGED <<bf, inserted, cleared, headerVars, layoutVars, fileVars, auxVars>>

BloomClear ==
  /\ inserted # {}
  /\ bf' = BloomFilter_clear(bf)
  /\ inserted' = {}
  /\ probe' = <<>>
  /\ cleared' = inserted
  /\ UNCHANGED <<headerVars, layoutVars, fileVars, auxVars>>

BloomNext == BloomInsert \/ BloomContains \/ BloomClear

SpecBloom == BloomInit /\ [][BloomNext]_vars

(***************************************************************************)
(* SpecLayout: FileLayout::calculate, the header built from it, and the    *)
(* metadata offset chosen when labels are appended.                        *)
(***************************************************************************)
LayoutNnz == (0..MaxLayoutNnz) \cup {1000001, 100000000}

LayoutInit ==
  /\ \E t \in {DataTypes[i] : i \in 1..6}, nnz \in LayoutNnz, k \in 0..MaxLayoutChunks :
       lay = [t |-> t, nnz |-> nnz, k |-> k, stage |-> "input",
              layout |-> <<>>, header |-> <<>>, metadata_offset |-> U64Zero]
  /\ BloomIdle /\ HeaderIdle /\ FileIdle /\ AuxIdle

\* let layout = FileLayout::calculate::<T>(nnz)?
LayoutCalculate ==
  /\ lay.stage = "input"
  /\ lay' = [lay EXCEPT !.stage = "layout",
                        !.layout = FileLayout_calculate(lay.t, lay.nnz)]
  /\ UNCHANGED <<bloomVars, headerVars, fileVars, auxVars>>

\* The header fields assigned by write_sparse_matrix.
LayoutHeader ==
  /\ lay.stage = "layout"
  /\ lay' = [lay EXCEPT !.stage = "header",
                        !.header = writer_header(lay.t, U64FromInt(1), U64FromInt(1),
                                                 lay.nnz, serialized_size(lay.k))]
  /\ UNCHANGED <<bloomVars, headerVars, fileVars, auxVars>>

\* write_sparse_matrix_with_labels: header.set_metadata_region(metadata_start, _).
LayoutLabels ==
  /\ lay.stage = "header"
  /\ lay' = [lay EXCEPT !.stage = "labels",
                        !.metadata_offset = U64FromInt(metadata_start(lay.header))]
  /\ UNCHANGED <<bloomVars, headerVars, fileVars, auxVars>>

LayoutNext == LayoutCalculate \/ LayoutHeader \/ LayoutLabels

SpecLayout == LayoutInit /\ [][LayoutNext]_vars

(***************************************************************************)
(* SpecHeader: headers are encoded by to_bytes or to_bytes_array, the      *)
(* buffer is possibly shortened or extended, and decoded by from_bytes.    *)
(***************************************************************************)
\* Headers as the writer fills them in, for small matrices of every element
\* type, and for one with more than 2^32 rows.
HeaderBases ==
  UNION {UNION {UNION {
    {writer_header(DataTypes[i], U64FromInt(r), U64FromInt(c), n, serialized_size(1))
       : n \in 0..(r * c)}
    : c \in 1..MaxHeaderDim} : r \in 1..MaxHeaderDim} : i \in 1..6}
  \cup {writer_header("F64", <<1, 0, 1, 0>>, U64FromInt(1), 1, serialized_size(5))}

\* A recognisable non-zero content of the reserved bytes.
ReservedPattern == [i \in 1..32 |-> 255 - i]

\* Headers a caller can build from h by assigning one public field.
HeaderVariants(h) ==
  {h,
   [h EXCEPT !.reserved = ReservedPattern],
   [h EXCEPT !.magic = <<66, 83, 80, 88>>],
   [h EXCEPT !.version = 0],
   [h EXCEPT !.version = 2],
   [h EXCEPT !.format_type = 2],
   [h EXCEPT !.format_type = 3],
   [h EXCEPT !.data_type = 6],
   [h EXCEPT !.structure_flags = 255],
   [h EXCEPT !.nrows = U64Zero],
   [h EXCEPT !.ncols = U64Zero],
   [h EXCEPT !.nrows = <<0, 0, 1, 0>>, !.ncols = <<0, 0, 1, 0>>],
   [h EXCEPT !.nnz = U64Add(U64Mul(h.nrows, h.ncols).value, U64FromInt(1)).value],
   [h EXCEPT !.values_size = U64Add(h.values_size, U64FromInt(1)).value],
   [h EXCEPT !.indices_0_size = U64Add(h.indices_0_size, U64FromInt(4)).value],
   [h EXCEPT !.indices_1_size = U64Add(h.indices_1_size, U64FromInt(4)).value],
   [h EXCEPT !.metadata_offset = <<65535, 65535, 65535, 65535>>,
             !.metadata_size = <<1, 0, 0, 32768>>]}

HeaderInit ==
  /\ \E b \in HeaderBases : hdr \in HeaderVariants(b)
  /\ enc = "none" /\ cut = "whole" /\ buf = <<>> /\ dec = <<>>
  /\ BloomIdle /\ LayoutIdle /\ FileIdle /\ AuxIdle

\* buf = hdr.to_bytes()
EncodeVec ==
  /\ enc = "none"
  /\ enc' = "to_bytes"
  /\ buf' = to_bytes(hdr)
  /\ UNCHANGED <<hdr, cut, dec, bloomVars, layoutVars, fileVars, auxVars>>

\* buf = hdr.to_bytes_array()
EncodeArray ==
  /\ enc = "none"
  /\ enc' = "to_bytes_array"
  /\ buf' = to_bytes_array(hdr)
  /\ UNCHANGED <<hdr, cut, dec, bloomVars, layoutVars, fileVars, auxVars>>

\* The caller hands over only a prefix of the encoded header.
Shorten ==
  /\ enc # "none" /\ cut = "whole" /\ dec = <<>>
  /\ \E n \in {0, 4, SIZE - 1} : buf' = SubSeq(buf, 1, n)
  /\ cut' = "short"
  /\ UNCHANGED <<hdr, enc, dec, bloomVars, layoutVars, fileVars, auxVars>>

\* The caller hands over the header followed by more bytes of the file.
Lengthen ==
  /\ enc # "none" /\ cut = "whole" /\ dec = <<>>
  /\ buf' = buf \o <<0, 255>>
  /\ cut' = "long"
  /\ UNCHANGED <<hdr, enc, dec, bloomVars, layoutVars, fileVars, auxVars>>

\* BspcHeader::from_bytes(&buf) of format/header.rs
Decode ==
  /\ enc # "none" /\ dec = <<>>
  /\ dec' = [by |-> "header.rs", res |-> from_bytes(buf)]
  /\ UNCHANGED <<hdr, enc, cut, buf, bloomVars, layoutVars, fileVars, auxVars>>

\* BspcHeader::from_bytes(&buf) of format.rs
DecodeFormatRs ==
  /\ enc # "none" /\ dec = <<>>
  /\ dec' = [by |-> "format.rs", res |-> format_rs_from_bytes(buf)]
  /\ UNCHANGED <<hdr, enc, cut, buf, bloomVars, layoutVars, fileVars, auxVars>>

HeaderNext ==
  EncodeVec \/ EncodeArray \/ Shorten \/ Lengthen \/ Decode \/ DecodeFormatRs

SpecHeader == HeaderInit /\ [][HeaderNext]_vars

(***************************************************************************)
(* The file pipeline: write_sparse_matrix produces a file, the file is     *)
(* possibly edited on disk, a reader opens it, and queries run on the      *)
(* reader.  SpecRoundTrip and SpecHostile share the write, open and query  *)
(* actions and differ in their inputs and in the edits to the file.        *)
(***************************************************************************)
ElementTypes == {DataTypes[i] : i \in 1..6}

\* ChunkConfig::default().chunk_size
DEFAULT_CHUNK_SIZE == 100000

\* Triple lists of at most MaxNnz entries over the positions of an r x c
\* matrix, in any order and with repetitions; the i-th triple has value i.
Positions(r, c) == (0..(r - 1)) \X (0..(c - 1))
PositionLists(r, c) == UNION {[1..n -> Positions(r, c)] : n \in 0..MaxNnz}
Triples(ps) ==
  [i \in 1..Len(ps) |->
     [row |-> U64FromInt(ps[i][1]), col |-> U64FromInt(ps[i][2]), value |-> i]]

\* The writer's arguments for an r x c matrix.
SmallInputs(r, c) ==
  {[t |-> t, nrows |-> U64FromInt(r), ncols |-> U64FromInt(c),
    elems |-> Triples(ps), chunk_size |-> k]
     : t \in ElementTypes, ps \in PositionLists(r, c), k \in 1..MaxChunkSize}

\* Matrices with more rows than a u32 holds, resp. than one default chunk.
WideInputs ==
  { [t |-> "F64", nrows |-> <<1, 0, 1, 0>>, ncols |-> U64FromInt(1),
     elems |-> <<[row |-> <<0, 0, 1, 0>>, col |-> U64Zero, value |-> 1]>>,
     chunk_size |-> 2 ^ 30],
    [t |-> "I32", nrows |-> U64FromInt(DEFAULT_CHUNK_SIZE + 1), ncols |-> U64FromInt(1),
     elems |-> <<[row |-> U64FromInt(DEFAULT_CHUNK_SIZE), col |-> U64Zero, value |-> 1],
                 [row |-> U64Zero, col |-> U64Zero, value |-> 2]>>,
     chunk_size |-> DEFAULT_CHUNK_SIZE] }

\* Files that are edited start from a 2 x 2 matrix of every element type.
HostileInputs ==
  {[t |-> t, nrows |-> U64FromInt(2), ncols |-> U64FromInt(2),
    elems |-> Triples(ps), chunk_size |-> DEFAULT_CHUNK_SIZE]
     : t \in ElementTypes, ps \in {<<<<0, 0>>, <<1, 1>>>>, <<<<1, 0>>>>}}

FileInit(inputs) ==
  /\ input \in inputs
  /\ file = <<>> /\ edit = "none" /\ reader = <<>> /\ out = <<>>
  /\ BloomIdle /\ HeaderIdle /\ LayoutIdle /\ AuxIdle

\* BspcFile::write_sparse_matrix(nrows, ncols, &sparse_elements, config, path)
Write ==
  /\ file = <<>>
  /\ \E search \in BinarySearches :
       file' = write_sparse_matrix(input.t, input.nrows, input.ncols, input.elems,
                                   input.chunk_size, search)
  /\ UNCHANGED <<input, edit, reader, out, bloomVars, headerVars, layoutVars, auxVars>>

\* bytes with patch written at the zero-based offset.
Overwrite(bytes, offset, patch) ==
  [i \in 1..Len(bytes) |->
     IF offset < i /\ i <= offset + Len(patch) THEN patch[i - offset] ELSE bytes[i]]

\* The header of a written file declares no bloom region, as the file of a
\* writer without the index does; the reader rebuilds the index on open.
DropBloomRegion ==
  /\ file # <<>> /\ file.ok /\ edit = "none" /\ reader = <<>>
  /\ U64Le(input.nrows, U64FromInt(2 * REBUILD_CHUNK_SIZE))
  /\ file' = Ok(Overwrite(file.value, 112, Zeros(16)))
  /\ edit' = "bloom_absent"
  /\ UNCHANGED <<input, reader, out, bloomVars, headerVars, layoutVars, auxVars>>

\* Edits of a written file: [name, offset, patch].
FileEdits ==
  LET layout == FileLayout_calculate(input.t, Len(input.elems))
      word(name, offset, w) == [name |-> name, offset |-> offset, patch |-> to_le_bytes(w)]
  IN { [name |-> "version", offset |-> 4, patch |-> <<v>>] : v \in {0, 2} }
     \cup { [name |-> "format_type", offset |-> 5, patch |-> <<v>>] : v \in {3, 255} }
     \cup { [name |-> "data_type", offset |-> 6, patch |-> <<v>>] : v \in {6, 255} }
     \cup { [name |-> "row_index", offset |-> layout.indices_0_offset + (4 * (i - 1)),
             patch |-> u32_to_le_bytes(input.nrows)] : i \in 1..Len(input.elems) }
     \cup { [name |-> "col_index", offset |-> layout.indices_1_offset + (4 * (i - 1)),
             patch |-> u32_to_le_bytes(input.ncols)] : i \in 1..Len(input.elems) }
     \cup { word("nnz", 24, U64FromInt(Len(input.elems) + 1)),
            word("values_offset", 32, U64FromInt(layout.values_offset + 1)),
            word("values_size", 40, <<65535, 65535, 65535, 65535>>),
            word("indices_0_offset", 48, U64FromInt(layout.indices_0_offset + 2)),
            word("indices_0_size", 56, <<65532, 65535, 65535, 65535>>),
            word("indices_1_size", 72, <<0, 16, 0, 0>>),
            word("bloom_filter_offset", 112, <<65528, 65535, 65535, 65535>>),
            word("bloom_filter_size", 120, <<0, 0, 0, 32768>>),
            word("bloom_filter_size", 120, <<0, 16, 0, 0>>),
            [name |-> "bloom_filter_region", offset |-> 112,
             patch |-> to_le_bytes(<<65528, 65535, 65535, 65535>>)
                       \o to_le_bytes(<<0, 0, 0, 32768>>)] }

\* A written file is edited on disk before it is opened.
EditFile ==
  /\ file # <<>> /\ file.ok /\ edit = "none" /\ reader = <<>>
  /\ \E e \in FileEdits :
       /\ file' = Ok(Overwrite(file.value, e.offset, e.patch))
       /\ edit' = e.name
  /\ UNCHANGED <<input, reader, out, bloomVars, headerVars, layoutVars, auxVars>>

\* MmapMatrix::<T>::from_file(path), T the type the matrix was written with.
OpenTyped ==
  /\ file # <<>> /\ file.ok /\ reader = <<>>
  /\ \E profile \in Profiles, search \in BinarySearches :
       reader' = from_file(file.value, input.t, profile, search)
  /\ UNCHANGED <<input, file, edit, out, bloomVars, headerVars, layoutVars, auxVars>>

\* BspcFile::read_matrix_with_bloom_filter(path, config)
OpenDynamic ==
  /\ file # <<>> /\ file.ok /\ reader = <<>>
  /\ \E profile \in Profiles, search \in BinarySearches :
       reader' = read_matrix_with_bloom_filter(file.value, profile, search)
  /\ UNCHANGED <<input, file, edit, out, bloomVars, headerVars, layoutVars, auxVars>>

\* Queries borrow the reader immutably and leave it as it is, so each one is
\* taken from the freshly opened reader.
Opened == reader # <<>> /\ reader.ok /\ out = <<>>

\* Rows and columns callers ask for: in range, just out of range, and the
\* rows and columns that were written.
QueryRows ==
  {U64FromInt(i) : i \in 0..MaxRows} \cup {input.nrows}
  \cup {input.elems[i].row : i \in 1..Len(input.elems)}
QueryCols ==
  {U64FromInt(i) : i \in 0..MaxCols} \cup {input.ncols}
  \cup {input.elems[i].col : i \in 1..Len(input.elems)}
QueryRowRanges ==
  { <<U64Zero, input.nrows>>, <<U64Zero, U64FromInt(1)>>, <<U64FromInt(1), input.nrows>>,
    <<U64FromInt(1), U64FromInt(1)>>, <<U64Zero, U64Add(input.nrows, U64FromInt(1)).value>> }
QueryColRanges ==
  { <<U64Zero, input.ncols>>, <<U64FromInt(1), input.ncols>>,
    <<U64Zero, U64Add(input.ncols, U64FromInt(1)).value>> }

Query(op, args, res) ==
  /\ out' = [op |-> op, args |-> args, res |-> res]
  /\ UNCHANGED <<input, file, edit, reader, bloomVars, headerVars, layoutVars, auxVars>>

GetElement ==
  /\ Opened
  /\ \E r \in QueryRows, c \in QueryCols :
       Query("get_element", <<r, c>>, get_element(reader.value, r, c))

RowView ==
  /\ Opened
  /\ \E r \in QueryRows : Query("row_view", <<r>>, row_view(reader.value, r))

ColView ==
  /\ Opened
  /\ \E c \in QueryCols : Query("col_view", <<c>>, col_view(reader.value, c))

RowRangeView ==
  /\ Opened
  /\ \E rg \in QueryRowRanges :
       Query("row_range_view", rg, row_range_view(reader.value, rg[1], rg[2]))

SubmatrixView ==
  /\ Opened
  /\ \E rg \in QueryRowRanges, cg \in QueryColRanges :
       Query("submatrix_view", rg \o cg,
             submatrix_view(reader.value, rg[1], rg[2], cg[1], cg[2]))

\* matrix.chunk_bloom_filter().may_contain_row(row)
MayContainRow ==
  /\ Opened
  /\ \E r \in QueryRows :
       Query("may_contain_row", <<r>>, may_contain_row(reader.value.chunk_bloom_filter, r))

Queries ==
  GetElement \/ RowView \/ ColView \/ RowRangeView \/ SubmatrixView \/ MayContainRow

(***************************************************************************)
(* SpecRoundTrip: files as the writer leaves them, with or without their   *)
(* bloom region.                                                           *)
(***************************************************************************)
RoundTripInit ==
  FileInit(UNION { SmallInputs(r, c) : r \in 1..MaxRows, c \in 1..MaxCols }
             \cup WideInputs)

RoundTripNext == Write \/ DropBloomRegion \/ OpenTyped \/ OpenDynamic \/ Queries

SpecRoundTrip == RoundTripInit /\ [][RoundTripNext]_vars

(***************************************************************************)
(* SpecHostile: files edited after they were written.                      *)
(***************************************************************************)
HostileInit == FileInit(HostileInputs)

HostileNext == Write \/ EditFile \/ OpenTyped \/ OpenDynamic \/ Queries

SpecHostile == HostileInit /\ [][HostileNext]_vars

(***************************************************************************)
(* SpecChunkBloom: a ChunkBloomFilter is constructed, rows below           *)
(* total_rows are inserted, it is queried, serialized and deserialized.    *)
(* cb = [f, rows, ser, de, q]: the filter, the rows inserted, the bytes    *)
(* of serialize (<<>> before it), the result of deserialize (<<>> before   *)
(* it) and the last query with its result.                                 *)
(***************************************************************************)
\* (total_rows, chunk_size) of the constructors: small ones, and wide ones
\* with 5 chunks of 2^30 rows, 2 chunks of 2^32 rows and 2 chunks of 2^63 rows.
ChunkShapes ==
  { <<U64FromInt(n), U64FromInt(c)>> : n \in 0..MaxRows, c \in 1..MaxChunkSize }
  \cup { << <<1, 0, 1, 0>>, <<0, 16384, 0, 0>> >>,
         << <<0, 0, 2, 0>>, <<0, 0, 1, 0>> >>,
         << <<65535, 65535, 65535, 65535>>, <<0, 0, 0, 32768>> >> }

\* Rows below total_rows: all of them for a small filter, those around the
\* chunk boundaries for a wide one.
ChunkRows(f) ==
  IF U64Le(f.total_rows, U64FromInt(MaxRows + 1))
  THEN { U64FromInt(r) : r \in 0..(U64ToInt(f.total_rows) - 1) }
  ELSE { U64Zero, U64Sub(f.chunk_size, U64FromInt(1)), f.chunk_size,
         U64Sub(f.total_rows, U64FromInt(1)) }

\* Ranges start < end, of at most MaxRows + 2 rows.
ChunkRanges(f) ==
  IF U64Le(f.total_rows, U64FromInt(MaxRows + 1))
  THEN { <<U64FromInt(a), U64FromInt(b)>> :
           a \in 0..U64ToInt(f.total_rows), b \in 1..(U64ToInt(f.total_rows) + 1) }
  ELSE { <<r, U64Add(r, U64FromInt(w)).value>> : r \in ChunkRows(f), w \in 1..2 }
       \cup { <<U64Sub(r, U64FromInt(1)), U64Add(r, U64FromInt(1)).value>> :
                r \in ChunkRows(f) \ {U64Zero} }

ChunkBloomInit ==
  /\ \E shape \in ChunkShapes :
       \E f \in { ChunkBloomFilter_new(shape[1], shape[2]) }
                \cup { ChunkBloomFilter_with_hash_count(shape[1], shape[2], k) :
                         k \in 0..MaxHashCount } :
         cb = [f |-> f, rows |-> {}, ser |-> <<>>, de |-> <<>>, q |-> <<>>]
  /\ BloomIdle /\ HeaderIdle /\ LayoutIdle /\ FileIdle /\ wr = <<>> /\ meta = <<>> /\ call = <<>>

\* filter.insert(row)
ChunkInsert ==
  /\ cb # <<>> /\ cb.ser = <<>>
  /\ \E r \in ChunkRows(cb.f) \ cb.rows :
       cb' = [cb EXCEPT !.f = ChunkBloomFilter_insert(cb.f, r),
                        !.rows = cb.rows \cup {r}, !.q = <<>>]
  /\ UNCHANGED <<bloomVars, headerVars, layoutVars, fileVars, wr, meta, call>>

\* filter.may_contain_row(row)
ChunkMayContainRow ==
  /\ cb # <<>> /\ cb.ser = <<>> /\ cb.q = <<>>
  /\ \E r \in ChunkRows(cb.f) \cup {cb.f.total_rows} :
       cb' = [cb EXCEPT !.q = [op |-> "may_contain_row", args |-> <<r>>,
                               res |-> may_contain_row(cb.f, r)]]
  /\ UNCHANGED <<bloomVars, headerVars, layoutVars, fileVars, wr, meta, call>>

\* filter.may_contain_range(start_row, end_row)
ChunkMayContainRange ==
  /\ cb # <<>> /\ cb.ser = <<>> /\ cb.q = <<>>
  /\ \E rg \in ChunkRanges(cb.f), profile \in Profiles :
       /\ U64Lt(rg[1], rg[2])
       /\ cb' = [cb EXCEPT !.q = [op |-> "may_contain_range", args |-> rg,
                                  profile |-> profile,
                                  res |-> may_contain_range(cb.f, rg[1], rg[2], profile)]]
  /\ UNCHANGED <<bloomVars, headerVars, layoutVars, fileVars, wr, meta, call>>

\* let data = filter.serialize()
ChunkSerialize ==
  /\ cb # <<>> /\ cb.ser = <<>>
  /\ cb' = [cb EXCEPT !.ser = serialize(cb.f), !.q = <<>>]
  /\ UNCHANGED <<bloomVars, headerVars, layoutVars, fileVars, wr, meta, call>>

\* ChunkBloomFilter::deserialize(&data)
ChunkDeserialize ==
  /\ cb # <<>> /\ cb.ser # <<>> /\ cb.de = <<>>
  /\ cb' = [cb EXCEPT !.de = deserialize(cb.ser)]
  /\ UNCHANGED <<bloomVars, headerVars, layoutVars, fileVars, wr, meta, call>>

ChunkBloomNext ==
  ChunkInsert \/ ChunkMayContainRow \/ ChunkMayContainRange
    \/ ChunkSerialize \/ ChunkDeserialize

SpecChunkBloom == ChunkBloomInit /\ [][ChunkBloomNext]_vars

(***************************************************************************)
(* SpecLabels: a metadata section is built from row and column labels,     *)
(* opened as a MetadataView and asked for labels, through the view and     *)
(* through MmapMatrix.  SpecHostileLabels: the bytes of a built section    *)
(* are edited before they are opened.                                      *)
(* meta = [stride, rows, cols, profile, built, window, edit, view, q]:     *)
(* the builder's arguments, the build, the result of the builder chain,    *)
(* the bytes a reader sees, the edit made to them, the result of           *)
(* MetadataView::new and the last lookup with its result.                  *)
(***************************************************************************)
\* The label of n bytes at list position p of a side: distinct non-zero bytes.
LabelBytes(side, p, n) ==
  [j \in 1..n |-> (IF side = "row" THEN 64 ELSE 128) + (8 * p) + j]

\* Label lengths tried with a stride: empty, one byte, full, one too long.
LabelLengths(stride) == {0, 1, stride, stride + 1}

\* The lists of at most max labels of a side.
LabelLists(side, stride, max) ==
  UNION { { [p \in 1..k |-> LabelBytes(side, p, lens[p])] :
              lens \in [1..k -> LabelLengths(stride)] } : k \in 0..max }

LabelsInitOf(strides, maxRows, maxCols) ==
  /\ \E stride \in strides, profile \in Profiles :
       \E rows \in LabelLists("row", stride, maxRows),
          cols \in LabelLists("col", stride, maxCols) :
         meta = [stride |-> stride, rows |-> rows, cols |-> cols, profile |-> profile,
                 built |-> <<>>, window |-> <<>>, edit |-> "none",
                 view |-> <<>>, q |-> <<>>]
  /\ BloomIdle /\ HeaderIdle /\ LayoutIdle /\ FileIdle /\ wr = <<>> /\ cb = <<>> /\ call = <<>>

LabelsInit == LabelsInitOf(1..MaxStride, MaxRowLabels, MaxColLabels)

\* let metadata = MetadataBuilder::new(stride).with_row_labels(..)?.with_col_labels(..)?.build()?
LabelsBuild ==
  /\ meta # <<>> /\ meta.built = <<>>
  /\ LET built == build_metadata(meta.stride, meta.rows, meta.cols)
     IN meta' = [meta EXCEPT !.built = built,
                             !.window = IF built.ok THEN built.value ELSE <<>>]
  /\ UNCHANGED <<bloomVars, headerVars, layoutVars, fileVars, wr, cb, call>>

\* Edits of a built section: [name, offset, patch], or the loss of its last byte.
LabelEdits ==
  LET word(name, offset, w) == [name |-> name, offset |-> offset, patch |-> to_le_bytes(w)]
      half(name, offset, w) == [name |-> name, offset |-> offset, patch |-> u32_to_le_bytes(w)]
      len == Len(meta.window)
  IN { word("row_labels_size", 16, U64FromInt(LABEL_HEADER_SIZE)),
       word("row_labels_size", 16, U64FromInt(len + 1)),
       word("row_labels_size", 16, <<65496 + LABEL_HEADER_SIZE, 65535, 65535, 65535>>),
       word("col_labels_offset", 24, U64FromInt(len)),
       half("row_count", METADATA_HEADER_SIZE, U64FromInt(Len(meta.rows) + 1)),
       half("row_count", METADATA_HEADER_SIZE, <<65535, 65535, 0, 0>>),
       half("row_stride", METADATA_HEADER_SIZE + 4, U64Zero),
       half("row_stride", METADATA_HEADER_SIZE + 4, U64FromInt(MAX_LABEL_STRIDE + 1)),
       half("row_stride", METADATA_HEADER_SIZE + 4, U64FromInt(meta.stride + 1)),
       [name |-> "magic", offset |-> 0, patch |-> <<0>>],
       [name |-> "version", offset |-> 4, patch |-> <<METADATA_VERSION + 1>>] }

\* The section is changed on disk before it is read.
LabelsEdit ==
  /\ meta # <<>> /\ meta.built # <<>> /\ meta.built.ok
  /\ meta.edit = "none" /\ meta.view = <<>> /\ meta.q = <<>>
  /\ meta.rows # <<>>
  /\ \/ \E e \in LabelEdits :
          meta' = [meta EXCEPT !.window = Overwrite(meta.window, e.offset, e.patch),
                               !.edit = e.name]
     \/ meta' = [meta EXCEPT !.window = SubSeq(meta.window, 1, Len(meta.window) - 1),
                             !.edit = "truncated"]
  /\ UNCHANGED <<bloomVars, headerVars, layoutVars, fileVars, wr, cb, call>>

\* MetadataView::new(&metadata)
LabelsOpen ==
  /\ meta # <<>> /\ meta.built # <<>> /\ meta.built.ok
  /\ meta.view = <<>> /\ meta.q = <<>>
  /\ meta' = [meta EXCEPT !.view = MetadataView_new(meta.window, meta.profile)]
  /\ UNCHANGED <<bloomVars, headerVars, layoutVars, fileVars, wr, cb, call>>

\* Indices asked for: each label of the longer list, and the two after them.
LabelIndices == 0..(MaxRowLabels + 1)

\* view.row_label(idx), view.col_label(idx)
LabelsViewLabel ==
  /\ meta # <<>> /\ meta.view # <<>> /\ meta.view.ok /\ meta.q = <<>>
  /\ \E side \in Sides, idx \in LabelIndices :
       meta' = [meta EXCEPT !.q = [op |-> "MetadataView", side |-> side, idx |-> idx,
                                   res |-> label(meta.view.value, side, idx,
                                                 meta.profile)]]
  /\ UNCHANGED <<bloomVars, headerVars, layoutVars, fileVars, wr, cb, call>>

\* matrix.row_label(idx), matrix.col_label(idx) on a file with this section
LabelsMatrixLabel ==
  /\ meta # <<>> /\ meta.built # <<>> /\ meta.built.ok
  /\ meta.view = <<>> /\ meta.q = <<>>
  /\ \E side \in Sides, idx \in LabelIndices :
       meta' = [meta EXCEPT !.q = [op |-> "MmapMatrix", side |-> side, idx |-> idx,
                                   res |-> MmapMatrix_label(meta.window, side, idx,
                                                            meta.profile)]]
  /\ UNCHANGED <<bloomVars, headerVars, layoutVars, fileVars, wr, cb, call>>

LabelsNext == LabelsBuild \/ LabelsOpen \/ LabelsViewLabel \/ LabelsMatrixLabel

SpecLabels == LabelsInit /\ [][LabelsNext]_vars

\* Sections with labels on both sides, to be edited.
HostileLabelsInit == LabelsInitOf({1, MaxStride}, 1, 1)

HostileLabelsNext == LabelsNext \/ LabelsEdit

SpecHostileLabels == HostileLabelsInit /\ [][HostileLabelsNext]_vars

(***************************************************************************)
(* SpecWriter: one call of write_sparse_matrix, step by step.  The workers *)
(* finish in any order, the bloom build at any time among them; every      *)
(* awaited file operation can fail, and the caller can drop the future at  *)
(* any await point.                                                        *)
(***************************************************************************)
\* The triples of a run: n entries in ascending or descending row order,
\* pairwise different in row and value.
WriterTriples(n, order) ==
  [i \in 1..n |->
     [row |-> U64FromInt(IF order = "ascending" THEN i - 1 ELSE n - i),
      col |-> U64FromInt((i - 1) % 2), value |-> i]]

WriterInputs ==
  {[t |-> t, nrows |-> U64FromInt(n + 1), ncols |-> U64FromInt(2),
    elems |-> WriterTriples(n, order), chunk_size |-> 1, search |-> "left_right"]
     : t \in ElementTypes, n \in 0..MaxWriterNnz, order \in {"ascending", "descending"}}
  \cup {[i EXCEPT !.search = "base_half"] :
          i \in {[t |-> w.t, nrows |-> w.nrows, ncols |-> w.ncols, elems |-> w.elems,
                  chunk_size |-> w.chunk_size, search |-> "left_right"] : w \in WideInputs}}

WriterInit ==
  /\ \E i \in WriterInputs, num_threads \in 1..MaxThreads :
       wr = [input |-> i, num_threads |-> num_threads, pc |-> "start", k |-> 0,
             buffers |-> <<>>, pending |-> {}, bloom |-> <<>>,
             exists |-> FALSE, disk |-> <<>>, log |-> <<>>,
             flushed |-> FALSE, result |-> <<>>]
  /\ BloomIdle /\ HeaderIdle /\ LayoutIdle /\ FileIdle /\ meta = <<>> /\ cb = <<>> /\ call = <<>>

writerFrame == <<bloomVars, headerVars, layoutVars, fileVars, meta, cb, call>>

\* First poll of the future, up to the start of rayon::join (file_io.rs
\* 157-184).  With no triples the partition size is 0 and par_chunks panics.
WriterBegin ==
  /\ wr.pc = "start"
  /\ LET nnz == Len(wr.input.elems)
         chunk_size == par_chunk_size(nnz, wr.num_threads)
     IN wr' = IF chunk_size = 0
              THEN [wr EXCEPT !.pc = "done",
                              !.result = Panic("chunk_size must not be zero")]
              ELSE LET n == Len(par_chunks(wr.input.elems, chunk_size))
                   IN [wr EXCEPT !.pc = "join", !.pending = 1..n,
                                 !.buffers = [k \in 1..n |-> <<>>]]
  /\ UNCHANGED writerFrame

\* One worker finishes its piece (file_io.rs 185-210) and its buffer is
\* collected.
WorkerFinish ==
  /\ wr.pc = "join"
  /\ \E k \in wr.pending :
       LET chunk_size == par_chunk_size(Len(wr.input.elems), wr.num_threads)
           chunk == par_chunks(wr.input.elems, chunk_size)[k]
       IN wr' = [wr EXCEPT !.pending = @ \ {k},
                           !.buffers = collect(@, k, serialize_chunk(wr.input.t, chunk))]
  /\ UNCHANGED writerFrame

\* The other closure of rayon::join (file_io.rs 215-219).
BloomFinish ==
  /\ wr.pc = "join"
  /\ wr.bloom = <<>>
  /\ wr' = [wr EXCEPT !.bloom =
              serialize(create_bloom_filter(wr.input.elems, wr.input.nrows,
                                            wr.input.chunk_size, wr.input.search))]
  /\ UNCHANGED writerFrame

\* rayon::join returns and the future reaches its first await, on
\* AsyncFile::create (file_io.rs 221-226).
JoinReturn ==
  /\ wr.pc = "join"
  /\ rendezvous(wr)
  /\ wr' = [wr EXCEPT !.pc = "create"]
  /\ UNCHANGED writerFrame

\* AsyncFile::create(path).await succeeds (file_io.rs 225-227).
CreateFile ==
  /\ wr.pc = "create"
  /\ wr' = [wr EXCEPT !.pc = "header", !.exists = TRUE, !.disk = <<>>]
  /\ UNCHANGED writerFrame

\* file.write_all(&header_bytes).await (file_io.rs 250-256).
WriteHeader ==
  /\ wr.pc = "header"
  /\ wr' = [write_all(wr, "header", to_bytes(run_header(wr)))
              EXCEPT !.pc = "header_padding"]
  /\ UNCHANGED writerFrame

\* The three gaps (file_io.rs 256-263, 267-281, 293-298, 308-313): zero
\* bytes up to the next region's offset, when it lies beyond what is written.
WritePadding ==
  /\ wr.pc \in {"header_padding", "rows_padding", "cols_padding"}
  /\ LET gap == padding_gap(wr)
         next == CASE wr.pc = "header_padding" -> "values"
                   [] wr.pc = "rows_padding" -> "rows"
                   [] wr.pc = "cols_padding" -> "cols"
         w == IF gap.target_offset > gap.current_pos
              THEN write_all(wr, "padding", Zeros(gap.target_offset - gap.current_pos))
              ELSE wr
     IN wr' = [w EXCEPT !.pc = next, !.k = 1]
  /\ UNCHANGED writerFrame

\* One pass of `for (values_chunk, _, _) in &buffers` (file_io.rs 284-290).
WriteValues ==
  /\ wr.pc = "values"
  /\ wr' = [write_all(wr, "values", wr.buffers[wr.k].values)
              EXCEPT !.k = IF wr.k = Len(wr.buffers) THEN 0 ELSE wr.k + 1,
                     !.pc = IF wr.k = Len(wr.buffers) THEN "rows_padding" ELSE "values"]
  /\ UNCHANGED writerFrame

\* One pass of `for (_, row_chunk, _) in &buffers` (file_io.rs 299-305).
WriteRowIndices ==
  /\ wr.pc = "rows"
  /\ wr' = [write_all(wr, "indices_0", wr.buffers[wr.k].rows)
              EXCEPT !.k = IF wr.k = Len(wr.buffers) THEN 0 ELSE wr.k + 1,
                     !.pc = IF wr.k = Len(wr.buffers) THEN "cols_padding" ELSE "rows"]
  /\ UNCHANGED writerFrame

\* One pass of `for (_, _, col_chunk) in &buffers` (file_io.rs 314-320).
WriteColIndices ==
  /\ wr.pc = "cols"
  /\ wr' = [write_all(wr, "indices_1", wr.buffers[wr.k].cols)
              EXCEPT !.k = IF wr.k = Len(wr.buffers) THEN 0 ELSE wr.k + 1,
                     !.pc = IF wr.k = Len(wr.buffers) THEN "bloom" ELSE "cols"]
  /\ UNCHANGED writerFrame

\* file.write_all(&bloom_filter_data).await (file_io.rs 325-327).
WriteBloom ==
  /\ wr.pc = "bloom"
  /\ wr' = [write_all(wr, "bloom", wr.bloom) EXCEPT !.pc = "flush"]
  /\ UNCHANGED writerFrame

\* file.flush().await succeeds and the call returns Ok(()) (file_io.rs
\* 328-332).
Flush ==
  /\ wr.pc = "flush"
  /\ wr' = [wr EXCEPT !.pc = "done", !.flushed = TRUE, !.result = Ok(<<>>)]
  /\ UNCHANGED writerFrame

\* The steps that wait on the file system.  A gap with nothing to write
\* awaits nothing.
WriterAwaits ==
  \/ wr.pc \in {"create", "header", "values", "rows", "cols", "bloom", "flush"}
  \/ /\ wr.pc \in {"header_padding", "rows_padding", "cols_padding"}
     /\ padding_gap(wr).target_offset > padding_gap(wr).current_pos

\* The awaited operation fails and `?` returns its IoError.  A failed write
\* may have put a first byte of its buffer into the file.
WriterFail ==
  /\ WriterAwaits
  /\ \E part \in 0..1 :
       /\ part = 1 => wr.pc \in {"header", "values", "rows", "cols", "bloom"}
       /\ LET bytes == CASE wr.pc = "header" -> to_bytes(run_header(wr))
                         [] wr.pc = "values" -> wr.buffers[wr.k].values
                         [] wr.pc = "rows" -> wr.buffers[wr.k].rows
                         [] wr.pc = "cols" -> wr.buffers[wr.k].cols
                         [] wr.pc = "bloom" -> wr.bloom
                         [] OTHER -> <<>>
              region == CASE wr.pc = "rows" -> "indices_0"
                          [] wr.pc = "cols" -> "indices_1"
                          [] OTHER -> wr.pc
              w == IF part = 1 THEN write_all(wr, region, SubSeq(bytes, 1, 1)) ELSE wr
          IN wr' = [w EXCEPT !.pc = "done", !.result = IoError(failure_message(wr.pc))]
  /\ UNCHANGED writerFrame

\* The caller drops the future: before it was ever polled, or while it
\* waits on the file system.  The create it waited on may still have
\* happened.
WriterCancel ==
  /\ wr.pc = "start" \/ WriterAwaits
  /\ \E created \in BOOLEAN :
       /\ created = (IF wr.pc = "create" THEN created ELSE wr.exists)
       /\ wr' = [wr EXCEPT !.pc = "done", !.exists = created,
                           !.result = [ok |-> FALSE, err |-> "Cancelled"]]
  /\ UNCHANGED writerFrame

WriterNext ==
  \/ WriterBegin \/ WorkerFinish \/ BloomFinish \/ JoinReturn \/ CreateFile
  \/ WriteHeader \/ WritePadding \/ WriteValues \/ WriteRowIndices
  \/ WriteColIndices \/ WriteBloom \/ Flush \/ WriterFail \/ WriterCancel

SpecWriter == WriterInit /\ [][WriterNext]_vars

(***************************************************************************)
(* SpecLabelledWriter: one call of write_sparse_matrix_with_labels on a    *)
(* file system that holds the target and the temporary file.               *)
(***************************************************************************)
\* Target paths: with an extension of its own, with none, and with the
\* extension the temporary file is given.
TargetPaths ==
  {[stem |-> "matrix", ext |-> "bspc"], [stem |-> "matrix", ext |-> ""],
   [stem |-> "matrix", ext |-> "tmp"]}

\* The calls: every element type, one or two triples, at most one label a
\* side, of every length the stride makes different.
LabelledInput(t, n, rows, cols, path) ==
  [t |-> t, nrows |-> U64FromInt(2), ncols |-> U64FromInt(2),
   elems |-> WriterTriples(n, "ascending"), chunk_size |-> 1, search |-> "left_right",
   row_labels |-> rows, col_labels |-> cols, label_stride |-> MaxStride, path |-> path]

LabelledWriterInit ==
  /\ \E t \in ElementTypes, n \in 1..2, path \in TargetPaths :
       \E rows \in LabelLists("row", MaxStride, 1), cols \in LabelLists("col", MaxStride, 1) :
         wr = [input |-> LabelledInput(t, n, rows, cols, path), pc |-> "start",
               fs |-> [p \in {path, with_extension(path, "tmp")} |-> NoFile],
               header |-> <<>>, metadata |-> <<>>, current_pos |-> 0, result |-> <<>>]
  /\ BloomIdle /\ HeaderIdle /\ LayoutIdle /\ FileIdle /\ meta = <<>> /\ cb = <<>> /\ call = <<>>

\* The run after its call of write_sparse_matrix returned written: with no
\* labels at all the call went to the target and its result is the run's
\* (file_io.rs 354-357); otherwise it went to the temporary file and `?`
\* looks at the result (360-362).
labelled_begin(w, written) ==
  IF ~written.ok THEN [w EXCEPT !.pc = "done", !.result = written]
  ELSE IF w.input.row_labels = <<>> /\ w.input.col_labels = <<>>
  THEN [w EXCEPT !.pc = "done", !.result = Ok(<<>>),
                 !.fs[w.input.path] = FileOf(written.value)]
  ELSE [w EXCEPT !.pc = "prepare",
                 !.fs[with_extension(w.input.path, "tmp")] = FileOf(written.value)]

LabelledBegin ==
  /\ wr.pc = "start"
  /\ wr' = labelled_begin(wr, write_sparse_matrix(wr.input.t, wr.input.nrows,
                                                  wr.input.ncols, wr.input.elems,
                                                  wr.input.chunk_size, wr.input.search))
  /\ UNCHANGED writerFrame

\* The run after the header was read back from the temporary file and the
\* metadata section was built (file_io.rs 365-401): either can fail;
\* otherwise the header is given its metadata region.
labelled_prepare(w, header, metadata) ==
  IF ~header.ok
  THEN [w EXCEPT !.pc = "done", !.result = InvalidState("Invalid BSPC header format")]
  ELSE IF ~metadata.ok THEN [w EXCEPT !.pc = "done", !.result = metadata]
  ELSE [w EXCEPT !.pc = "create",
                 !.metadata = metadata.value,
                 !.header = set_metadata_region(header.value,
                                                U64FromInt(metadata_start(header.value)),
                                                U64FromInt(Len(metadata.value)))]

\* The builder is the one of metadata.rs, with the stride of the call.
LabelledPrepare ==
  /\ wr.pc = "prepare"
  /\ wr' = labelled_prepare(
             wr,
             from_bytes(SubSeq(wr.fs[with_extension(wr.input.path, "tmp")].bytes, 1, SIZE)),
             build_metadata(wr.input.label_stride, wr.input.row_labels,
                            wr.input.col_labels))
  /\ UNCHANGED writerFrame

\* AsyncFile::open(&temp_path) and AsyncFile::create(path) (file_io.rs
\* 407-412): the target is created, or emptied when it exists.
LabelledCreate ==
  /\ wr.pc = "create"
  /\ wr' = [wr EXCEPT !.pc = "header", !.fs[wr.input.path] = FileOf(<<>>),
                      !.current_pos = 0]
  /\ UNCHANGED writerFrame

\* final_file.write_all(&header.to_bytes()) (file_io.rs 414-418).
LabelledWriteHeader ==
  /\ wr.pc = "header"
  /\ LET bytes == to_bytes(wr.header)
     IN wr' = [wr EXCEPT !.pc = "copy",
                         !.fs[wr.input.path] = FileOf(@.bytes \o bytes),
                         !.current_pos = @ + Len(bytes)]
  /\ UNCHANGED writerFrame

\* The copy loop (file_io.rs 420-439): what the temporary file holds from
\* offset SIZE on, as it is when the loop reads it, goes to the target.
LabelledCopy ==
  /\ wr.pc = "copy"
  /\ LET temp == wr.fs[with_extension(wr.input.path, "tmp")].bytes
         rest == IF Len(temp) > SIZE THEN SubSeq(temp, SIZE + 1, Len(temp)) ELSE <<>>
     IN wr' = [wr EXCEPT !.pc = "padding",
                         !.fs[wr.input.path] = FileOf(@.bytes \o rest),
                         !.current_pos = @ + Len(rest)]
  /\ UNCHANGED writerFrame

\* stream_position and the zero padding up to metadata_start (file_io.rs
\* 441-452).
LabelledPadding ==
  /\ wr.pc = "padding"
  /\ LET target == U64ToInt(wr.header.metadata_offset)
         padding == IF target > wr.current_pos THEN Zeros(target - wr.current_pos)
                    ELSE <<>>
     IN wr' = [wr EXCEPT !.pc = "metadata",
                         !.fs[wr.input.path] = FileOf(@.bytes \o padding),
                         !.current_pos = @ + Len(padding)]
  /\ UNCHANGED writerFrame

\* final_file.write_all(&metadata) (file_io.rs 454-458).
LabelledWriteMetadata ==
  /\ wr.pc = "metadata"
  /\ wr' = [wr EXCEPT !.pc = "flush",
                      !.fs[wr.input.path] = FileOf(@.bytes \o wr.metadata),
                      !.current_pos = @ + Len(wr.metadata)]
  /\ UNCHANGED writerFrame

\* final_file.flush() (file_io.rs 460-463).
LabelledFlush ==
  /\ wr.pc = "flush"
  /\ wr' = [wr EXCEPT !.pc = "remove"]
  /\ UNCHANGED writerFrame

\* tokio::fs::remove_file(&temp_path), then Ok(()) (file_io.rs 465-470).
LabelledRemoveTemp ==
  /\ wr.pc = "remove"
  /\ wr' = [wr EXCEPT !.pc = "done", !.result = Ok(<<>>),
                      !.fs[with_extension(wr.input.path, "tmp")] = NoFile]
  /\ UNCHANGED writerFrame

\* An awaited operation of the second part fails and `?` returns its
\* IoError; the files stay as they are.
LabelledFail ==
  /\ wr.pc \in {"create", "header", "copy", "padding", "metadata", "flush", "remove"}
  /\ wr' = [wr EXCEPT !.pc = "done", !.result = IoError(labels_failure_message(wr.pc))]
  /\ UNCHANGED writerFrame

LabelledWriterNext ==
  \/ LabelledBegin \/ LabelledPrepare \/ LabelledCreate \/ LabelledWriteHeader
  \/ LabelledCopy \/ LabelledPadding \/ LabelledWriteMetadata \/ LabelledFlush
  \/ LabelledRemoveTemp \/ LabelledFail

SpecLabelledWriter == LabelledWriterInit /\ [][LabelledWriterNext]_vars

(***************************************************************************)
(* SpecParse: parse_range called on short strings over digits, the two     *)
(* separators and a letter, and on strings whose endpoints lie around      *)
(* usize::MAX.                                                             *)
(***************************************************************************)
\* The bytes of the short strings: '0', '1', '9', ':', '-', 'a'.
RangeAlphabet == {48, 49, 57, 58, 45, 97}

ShortRangeStrings(len) == [1..len -> RangeAlphabet]

\* "18446744073709551615" is usize::MAX, "18446744073709551616" one more.
WideRangeStrings ==
  { <<48, 58, 49, 56, 52, 52, 54, 55, 52, 52, 48, 55, 51, 55, 48, 57, 53, 53, 49, 54, 49, 53>>,
    <<48, 45, 49, 56, 52, 52, 54, 55, 52, 52, 48, 55, 51, 55, 48, 57, 53, 53, 49, 54, 49, 54>>,
    <<49, 56, 52, 52, 54, 55, 52, 52, 48, 55, 51, 55, 48, 57, 53, 53, 49, 54, 49, 54, 58, 48>>,
    <<49, 56, 52, 52, 54, 55, 52, 52, 48, 55, 51, 55, 48, 57, 53, 53, 49, 54, 49, 53, 58, 49, 56, 52, 52, 54, 55, 52, 52, 48, 55, 51, 55, 48, 57, 53, 53, 49, 54, 49, 53>>,
    <<49, 56, 52, 52, 54, 55, 52, 52, 48, 55, 51, 55, 48, 57, 53, 53, 49, 54, 49, 53, 45, 49, 56, 52, 52, 54, 55, 52, 52, 48, 55, 51, 55, 48, 57, 53, 53, 49, 54, 49, 52>>,
    <<48, 48, 48, 48, 48, 48, 48, 48, 48, 48, 48, 48, 48, 48, 48, 48, 48, 48, 48, 48, 48, 48, 49, 58, 57>>,
    <<49, 58, 57, 57, 57, 57, 57, 57, 57, 57, 57, 57, 57, 57, 57, 57, 57, 57, 57, 57, 57, 57>>,
    <<49, 48, 48, 48, 48, 48, 48, 48, 48, 48, 48, 48, 48, 48, 48, 48, 48, 48, 48, 48, 48, 58, 49, 48, 48, 48, 48, 48, 48, 48, 48, 48, 48, 48, 48, 48, 48, 48, 48, 48, 48, 48, 49>> }

ParseInit ==
  /\ \E str \in UNION {ShortRangeStrings(len) : len \in 0..MaxRangeLen} \cup WideRangeStrings :
       call = [fn |-> "parse_range", args |-> str, res |-> <<>>]
  /\ BloomIdle /\ HeaderIdle /\ LayoutIdle /\ FileIdle
  /\ wr = <<>> /\ meta = <<>> /\ cb = <<>>

ParseRange ==
  /\ call.res = <<>>
  /\ call' = [call EXCEPT !.res = parse_range(call.args)]
  /\ UNCHANGED <<bloomVars, headerVars, layoutVars, fileVars, wr, meta, cb>>

SpecParse == ParseInit /\ [][ParseRange]_vars

(***************************************************************************)
(* SpecAlign: align_to_boundary and calculate_padding on small offsets and *)
(* on offsets at the top of usize, with boundaries that are powers of two  *)
(* and some that are not.                                                  *)
(***************************************************************************)
AlignOffsets ==
  {U64FromInt(x) : x \in 0..MaxAlignOffset}
  \cup {USIZE_MAX, <<65534, 65535, 65535, 65535>>, <<65528, 65535, 65535, 65535>>,
        <<65527, 65535, 65535, 65535>>, <<0, 0, 0, 32768>>, <<1, 0, 0, 32768>>}

AlignBoundaries ==
  {U64FromInt(2 ^ k) : k \in 0..MaxAlignLog} \cup {U64FromInt(3), U64FromInt(6)}
  \cup {<<0, 0, 0, 32768>>}

AlignInit ==
  /\ \E fn \in {"align_to_boundary", "calculate_padding"},
        offset \in AlignOffsets, boundary \in AlignBoundaries, profile \in Profiles :
       call = [fn |-> fn,
               args |-> [offset |-> offset, boundary |-> boundary, profile |-> profile],
               res |-> <<>>]
  /\ BloomIdle /\ HeaderIdle /\ LayoutIdle /\ FileIdle
  /\ wr = <<>> /\ meta = <<>> /\ cb = <<>>

AlignToBoundary ==
  /\ call.fn = "align_to_boundary" /\ call.res = <<>>
  /\ call' = [call EXCEPT !.res = align_to_boundary(call.args.offset, call.args.boundary,
                                                    call.args.profile)]
  /\ UNCHANGED <<bloomVars, headerVars, layoutVars, fileVars, wr, meta, cb>>

CalculatePadding ==
  /\ call.fn = "calculate_padding" /\ call.res = <<>>
  /\ call' = [call EXCEPT !.res = calculate_padding(call.args.offset, call.args.boundary,
                                                    call.args.profile)]
  /\ UNCHANGED <<bloomVars, headerVars, layoutVars, fileVars, wr, meta, cb>>

AlignNext == AlignToBoundary \/ CalculatePadding

SpecAlign == AlignInit /\ [][AlignNext]_vars

(***************************************************************************)
(* SpecBulk: one call of bulk_insert_sorted on a non-decreasing slice, the *)
(* closures of the chunks running in any order (par_iter_mut().for_each).  *)
(***************************************************************************)
\* Non-decreasing sequences of up to MaxBulkRows rows of the index, the row
\* just beyond it included.
BulkSlices(f) ==
  UNION { { rows \in [1..n -> ChunkRows(f) \cup {f.total_rows}] :
              \A i \in 1..(n - 1) : U64Le(rows[i], rows[i + 1]) } : n \in 0..MaxBulkRows }

BulkInit ==
  /\ \E shape \in ChunkShapes, search \in BinarySearches, profile \in Profiles :
       \E f \in { ChunkBloomFilter_new(shape[1], shape[2]),
                  ChunkBloomFilter_with_hash_count(shape[1], shape[2], MaxHashCount) } :
         \E sorted_rows \in BulkSlices(f) :
           cb = [before |-> f, f |-> f, sorted_rows |-> sorted_rows, search |-> search,
                 profile |-> profile, pc |-> "start", pending |-> {}, panics |-> {},
                 res |-> <<>>]
  /\ BloomIdle /\ HeaderIdle /\ LayoutIdle /\ FileIdle /\ wr = <<>> /\ meta = <<>> /\ call = <<>>

\* The call up to the parallel loop (chunk_bloom_filter.rs 62-83): an empty
\* slice returns at once.
BulkBegin ==
  /\ cb.pc = "start"
  /\ cb' = IF cb.sorted_rows = <<>>
           THEN [cb EXCEPT !.pc = "done", !.res = Ok(<<>>)]
           ELSE [cb EXCEPT !.pc = "for_each", !.pending = 1..Len(cb.f.chunk_filters)]
  /\ UNCHANGED <<bloomVars, headerVars, layoutVars, fileVars, wr, meta, call>>

\* The closure of one chunk runs to its end, on its own leaf filter.
BulkWorker ==
  /\ cb.pc = "for_each"
  /\ \E i \in cb.pending :
       \E done \in { bulk_worker(cb.f.chunk_filters[i], i - 1, cb.f.chunk_size,
                                 cb.sorted_rows, cb.search, cb.profile) } :
         cb' = IF done.ok
               THEN [cb EXCEPT !.pending = @ \ {i}, !.f.chunk_filters[i] = done.value]
               ELSE [cb EXCEPT !.pending = @ \ {i}, !.panics = @ \cup {done}]
  /\ UNCHANGED <<bloomVars, headerVars, layoutVars, fileVars, wr, meta, call>>

\* for_each returns when every closure has run; a panic of a closure is
\* raised again in the caller.
BulkReturn ==
  /\ cb.pc = "for_each" /\ cb.pending = {}
  /\ cb' = [cb EXCEPT !.pc = "done",
                      !.res = IF cb.panics = {} THEN Ok(<<>>)
                              ELSE CHOOSE panic \in cb.panics : TRUE]
  /\ UNCHANGED <<bloomVars, headerVars, layoutVars, fileVars, wr, meta, call>>

BulkNext == BulkBegin \/ BulkWorker \/ BulkReturn

SpecBulk == BulkInit /\ [][BulkNext]_vars

(***************************************************************************)
(* SpecFilterOrigin: a chunked bloom filter from one of its three          *)
(* constructors, then inserts and queries on it.                           *)
(***************************************************************************)
\* Shapes handed to new and with_hash_count: ChunkShapes and a chunk size of 0.
OriginShapes == ChunkShapes \cup { <<U64FromInt(n), U64Zero>> : n \in 0..1 }

\* Byte strings handed to deserialize: a 12-byte header of three u32 fields
\* and the 9 bytes of each of `leaves` empty leaf filters.
OriginData(chunk_size, total_rows, num_chunks, leaves) ==
  LeBytes4(chunk_size) \o LeBytes4(total_rows) \o LeBytes4(num_chunks)
    \o Flatten([i \in 1..leaves |-> <<1>> \o Zeros(8)])

OriginBytes ==
  { OriginData(c, n, k, m) :
      c \in 0..MaxChunkSize, n \in 0..MaxRows, k \in 0..MaxRows, m \in 0..MaxRows }

FilterOriginInit ==
  /\ cb = [pc |-> "start", f |-> <<>>, res |-> <<>>, q |-> <<>>, inserts |-> 0]
  /\ BloomIdle /\ HeaderIdle /\ LayoutIdle /\ FileIdle /\ wr = <<>> /\ meta = <<>> /\ call = <<>>

\* ChunkBloomFilter::new(total_rows, chunk_size); div_ceil panics on a
\* divisor of 0.
FilterNew ==
  /\ cb.pc = "start"
  /\ \E shape \in OriginShapes :
       cb' = IF shape[2] = U64Zero
             THEN [cb EXCEPT !.pc = "failed", !.res = Panic("attempt to divide by zero")]
             ELSE [cb EXCEPT !.pc = "built", !.res = Ok("new"),
                             !.f = ChunkBloomFilter_new(shape[1], shape[2])]
  /\ UNCHANGED <<bloomVars, headerVars, layoutVars, fileVars, wr, meta, call>>

\* ChunkBloomFilter::with_hash_count(total_rows, chunk_size, hash_count)
FilterWithHashCount ==
  /\ cb.pc = "start"
  /\ \E shape \in OriginShapes, k \in 0..MaxHashCount :
       cb' = IF shape[2] = U64Zero
             THEN [cb EXCEPT !.pc = "failed", !.res = Panic("attempt to divide by zero")]
             ELSE [cb EXCEPT !.pc = "built", !.res = Ok("with_hash_count"),
                             !.f = ChunkBloomFilter_with_hash_count(shape[1], shape[2], k)]
  /\ UNCHANGED <<bloomVars, headerVars, layoutVars, fileVars, wr, meta, call>>

\* ChunkBloomFilter::deserialize(data)
FilterDeserialize ==
  /\ cb.pc = "start"
  /\ \E data \in OriginBytes :
       \E de \in { deserialize(data) } :
         cb' = IF de.ok
               THEN [cb EXCEPT !.pc = "built", !.res = Ok("deserialize"), !.f = de.value]
               ELSE [cb EXCEPT !.pc = "failed", !.res = de]
  /\ UNCHANGED <<bloomVars, headerVars, layoutVars, fileVars, wr, meta, call>>

\* filter.insert(row); row / self.chunk_size panics on a chunk size of 0.
FilterInsert ==
  /\ cb.pc = "built" /\ cb.inserts < MaxFilterInserts
  /\ \E r \in ChunkRows(cb.f) \cup {cb.f.total_rows} :
       cb' = IF cb.f.chunk_size = U64Zero
             THEN [cb EXCEPT !.pc = "failed",
                             !.q = [op |-> "insert", args |-> <<r>>,
                                    res |-> Panic("attempt to divide by zero")]]
             ELSE [cb EXCEPT !.f = ChunkBloomFilter_insert(cb.f, r),
                             !.inserts = @ + 1, !.q = <<>>]
  /\ UNCHANGED <<bloomVars, headerVars, layoutVars, fileVars, wr, meta, call>>

\* filter.may_contain_row(row)
FilterMayContainRow ==
  /\ cb.pc = "built" /\ cb.q = <<>>
  /\ \E r \in ChunkRows(cb.f) \cup {cb.f.total_rows} :
       cb' = [cb EXCEPT !.q = [op |-> "may_contain_row", args |-> <<r>>,
                               res |-> may_contain_row(cb.f, r)]]
  /\ UNCHANGED <<bloomVars, headerVars, layoutVars, fileVars, wr, meta, call>>

\* filter.may_contain_range(start_row, end_row), in a build without overflow
\* checks.
FilterMayContainRange ==
  /\ cb.pc = "built" /\ cb.q = <<>>
  /\ \E rg \in ChunkRanges(cb.f) :
       cb' = [cb EXCEPT !.q = [op |-> "may_contain_range", args |-> rg,
                               res |-> may_contain_range(cb.f, rg[1], rg[2], "release")]]
  /\ UNCHANGED <<bloomVars, headerVars, layoutVars, fileVars, wr, meta, call>>

FilterOriginNext ==
  FilterNew \/ FilterWithHashCount \/ FilterDeserialize
    \/ FilterInsert \/ FilterMayContainRow \/ FilterMayContainRange

SpecFilterOrigin == FilterOriginInit /\ [][FilterOriginNext]_vars

(***************************************************************************)
(* SpecHashCount: BloomFilter::<N>::new(expected_elements) for the filter  *)
(* sizes N up to MaxFilterBytes.                                           *)
(***************************************************************************)
ExpectedCounts == (0..MaxExpected) \cup {1000, 100000, 1000000}

HashCountInit ==
  /\ \E n \in 1..MaxFilterBytes, e \in ExpectedCounts :
       call = [fn |-> "BloomFilter::new", args |-> <<n, e>>, res |-> <<>>]
  /\ BloomIdle /\ HeaderIdle /\ LayoutIdle /\ FileIdle
  /\ wr = <<>> /\ meta = <<>> /\ cb = <<>>

\* BloomFilter::<N>::new(expected_elements)
HashCountNew ==
  /\ call # <<>> /\ call.fn = "BloomFilter::new" /\ call.res = <<>>
  /\ call' = [call EXCEPT !.res = BloomFilter_new(call.args[1], call.args[2])]
  /\ UNCHANGED <<bloomVars, headerVars, layoutVars, fileVars, wr, meta, cb>>

SpecHashCount == HashCountInit /\ [][HashCountNew]_vars

(***************************************************************************)
(* SpecAnyInput: the writer on arguments of any kind, the written file     *)
(* opened afterwards.                                                      *)
(***************************************************************************)
\* Dimensions from 0 on, and triples in and out of them, duplicates included.
AnyInputs ==
  {[t |-> t, nrows |-> U64FromInt(r), ncols |-> U64FromInt(c),
    elems |-> Triples(ps), chunk_size |-> k]
     : t \in {"F32", "F64"}, r \in 0..MaxCols, c \in 0..MaxCols,
       ps \in PositionLists(MaxCols + 1, MaxCols + 1), k \in 1..MaxChunkSize}
  \cup WideInputs

AnyInputInit == FileInit(AnyInputs)

AnyInputNext == Write \/ OpenTyped

SpecAnyInput == AnyInputInit /\ [][AnyInputNext]_vars

(***************************************************************************)
(* SpecConfig: the writer under a ChunkConfig with its bloom_hash_count    *)
(* and chunk_size set, the written file opened afterwards.                 *)
(***************************************************************************)
\* ChunkConfig::default() (chunked_backend.rs 72-80).
DEFAULT_BLOOM_HASH_COUNT == 3

\* Chunk sizes of a configuration: the small ones, the default, and one for
\* which BloomFilter64::new chooses three hash functions.
ConfigChunkSizes == (1..MaxChunkSize) \cup {20, DEFAULT_CHUNK_SIZE}

\* The writer's arguments, `chunk_size` and `bloom_hash_count` being the
\* fields of its ChunkConfig.
ConfigInputs ==
  {[t |-> t, nrows |-> U64FromInt(r), ncols |-> U64FromInt(1),
    elems |-> Triples(ps), chunk_size |-> k, bloom_hash_count |-> h]
     : t \in {"F32", "I64"}, r \in 1..MaxRows,
       ps \in UNION { PositionLists(r2, 1) \ {<<>>} : r2 \in 1..MaxRows },
       k \in ConfigChunkSizes, h \in (1..MaxHashCount) \cup {DEFAULT_BLOOM_HASH_COUNT}}

ConfigInit ==
  /\ FileInit(ConfigInputs)
  /\ \A i \in 1..Len(input.elems) : U64Lt(input.elems[i].row, input.nrows)

ConfigNext == Write \/ OpenTyped

SpecConfig == ConfigInit /\ [][ConfigNext]_vars

(***************************************************************************)
(* The header invariants the format documents (magic and version, the      *)
(* dimensions, and the region sizes), as a predicate on a header value.    *)
(***************************************************************************)
HeaderInvariants(h) ==
  /\ h.magic = MAGIC
  /\ h.version = 1
  /\ h.nrows # U64Zero
  /\ h.ncols # U64Zero
  /\ ~U64Mul(h.nrows, h.ncols).overflow
  /\ U64Le(h.nnz, U64Mul(h.nrows, h.ncols).value)
  /\ DataType_from_u8(h.data_type) # "None"
  /\ LET vs == U64Mul(h.nnz, U64FromInt(size_bytes(DataType_from_u8(h.data_type))))
         is == U64Mul(h.nnz, U64FromInt(4))
     IN /\ ~vs.overflow /\ h.values_size = vs.value
        /\ ~is.overflow /\ h.indices_0_size = is.value /\ h.indices_1_size = is.value

(***************************************************************************)
(* C3: a leaf bloom filter has no false negatives.                         *)
(***************************************************************************)
\* C3: every value inserted since the last clear answers contains() = true,
\* both when probed directly and in the recorded result of a contains call.
C3_NoFalseNegative ==
  /\ \A v \in inserted : BloomFilter_contains(bf, v)
  /\ (probe # <<>> /\ probe.value \in inserted) => probe.result

\* A contains call has answered true for an inserted value of a filter that
\* really sets bits, while another value is correctly reported absent.
C3_Witness ==
  /\ probe # <<>>
  /\ probe.value \in inserted
  /\ probe.result
  /\ bf.hash_count > 0
  /\ \E w \in BloomKeys : ~BloomFilter_contains(bf, w)

(***************************************************************************)
(* C10: the writer's layout is aligned.                                    *)
(***************************************************************************)
\* C10: for every element type and nnz the computed layout, and the header
\* built from it, have values_offset a multiple of alignof(T) and both index
\* offsets multiples of 4; the metadata offset set when labels are written is
\* a multiple of 8.
C10_WriterAlignment ==
  /\ lay # <<>> /\ lay.stage # "input" =>
       /\ lay.layout.values_offset % align_of(lay.t) = 0
       /\ lay.layout.indices_0_offset % 4 = 0
       /\ lay.layout.indices_1_offset % 4 = 0
  /\ lay # <<>> /\ lay.stage \in {"header", "labels"} =>
       /\ U64ToInt(lay.header.values_offset) % align_of(lay.t) = 0
       /\ U64ToInt(lay.header.indices_0_offset) % 4 = 0
       /\ U64ToInt(lay.header.indices_1_offset) % 4 = 0
  /\ lay # <<>> /\ lay.stage = "labels" =>
       /\ U64Fits(lay.metadata_offset)
       /\ U64ToInt(lay.metadata_offset) % 8 = 0

\* Labels were appended to a file of 8-byte elements with an odd nnz whose
\* bloom block does not end on a multiple of 8, so rounding up was needed.
C10_Witness ==
  /\ lay # <<>> /\ lay.stage = "labels"
  /\ lay.t = "F64" /\ lay.nnz % 2 = 1 /\ lay.nnz > 1000000
  /\ (U64ToInt(lay.header.bloom_filter_offset)
        + U64ToInt(lay.header.bloom_filter_size)) % 8 # 0
  /\ U64ToInt(lay.metadata_offset)
       > U64ToInt(lay.header.bloom_filter_offset) + U64ToInt(lay.header.bloom_filter_size)

(***************************************************************************)
(* C4: header encode/decode round trip.                                    *)
(***************************************************************************)
\* C4: both encoders produce exactly 160 bytes and agree byte for byte, and
\* from_bytes of the whole encoding of a header whose magic is BSPC returns
\* that header, field for field, reserved bytes included.
C4_HeaderRoundTrip ==
  /\ hdr # <<>> =>
       /\ Len(to_bytes(hdr)) = SIZE
       /\ Len(to_bytes_array(hdr)) = SIZE
  /\ (enc # "none" /\ cut = "whole") => Len(buf) = SIZE
  /\ (dec # <<>> /\ dec.by = "header.rs" /\ cut = "whole" /\ hdr.magic = MAGIC) =>
       dec.res = Ok(hdr)

\* A header satisfying the invariants, with more than 2^32 rows and non-zero
\* reserved bytes, was encoded by to_bytes_array and decoded back to itself.
C4_Witness ==
  /\ dec # <<>> /\ dec.by = "header.rs" /\ cut = "whole"
  /\ enc = "to_bytes_array"
  /\ HeaderInvariants(hdr)
  /\ ~U64Fits(hdr.nrows)
  /\ hdr.reserved = ReservedPattern
  /\ dec.res = Ok(hdr)

(***************************************************************************)
(* C5: which headers from_bytes accepts.                                   *)
(***************************************************************************)
\* C5: from_bytes returns a header only if the header invariants hold of it
\* (version 1, positive dimensions, nnz <= nrows*ncols without overflow,
\* values_size = nnz*size_of(data_type), both index sizes = nnz*4).
C5_DecodeEnforcesInvariants ==
  (dec # <<>> /\ dec.res.ok) => HeaderInvariants(dec.res.value)

(***************************************************************************)
(* C1: write then open returns what was written.                           *)
(***************************************************************************)
\* The value a query returns for the written value v: its bytes as T.
WrittenValue(v) == value_to_le_bytes(input.t, v)

\* No two triples of the input share a position.
DistinctPositions ==
  \A i, j \in 1..Len(input.elems) :
    (input.elems[i].row = input.elems[j].row /\ input.elems[i].col = input.elems[j].col)
      => i = j

\* C1: on the reader of an unedited file written from triples at pairwise
\* distinct positions, get_element(r, c) returns the value written at (r, c)
\* for every written triple, and row_view(r) for r < nrows yields exactly the
\* (c, v) pairs of the triples whose row is r.
C1_RoundTrip ==
  (out # <<>> /\ edit = "none" /\ DistinctPositions) =>
    /\ out.op = "get_element" =>
         \A i \in 1..Len(input.elems) :
           (input.elems[i].row = out.args[1] /\ input.elems[i].col = out.args[2]) =>
             out.res = Ok(Some(to_array_value(input.t, WrittenValue(input.elems[i].value))))
    /\ (out.op = "row_view" /\ U64Lt(out.args[1], input.nrows)) =>
         /\ out.res.ok
         /\ {out.res.value[k] : k \in 1..Len(out.res.value)}
              = {<<input.elems[i].col, WrittenValue(input.elems[i].value)>> :
                   i \in {j \in 1..Len(input.elems) : input.elems[j].row = out.args[1]}}

(***************************************************************************)
(* C2: the reader's chunked bloom index has no false negatives.            *)
(***************************************************************************)
\* C2: after write then open, with the index loaded from the bloom region or
\* rebuilt because the region is absent, may_contain_row(r) answers true for
\* every r that is the row of some written triple, whatever the order of the
\* triples.
C2_NoFalseNegativeAtReader ==
  (out # <<>> /\ out.op = "may_contain_row"
     /\ \E i \in 1..Len(input.elems) : input.elems[i].row = out.args[1])
    => out.res = Ok(TRUE)

(***************************************************************************)
(* C9: out-of-range caller indices.                                        *)
(***************************************************************************)
\* An error value that reports a caller's index as out of bounds.
IsIndexOutOfBounds(res) ==
  /\ ~res.ok
  /\ \/ res.err = "IndexOutOfBounds"
     \/ /\ res.err = "InvalidState"
        /\ res.msg \in {"Row index out of bounds", "Column index out of bounds"}

\* C9: get_element(r, c) with r >= nrows or c >= ncols, row_view(r) with
\* r >= nrows, col_view(c) with c >= ncols and may_contain_row(r) with
\* r >= nrows each return an out-of-bounds error, not a value, an empty result
\* or a boolean.
C9_OutOfRangeIsError ==
  (out # <<>> /\ edit = "none") =>
    /\ (out.op = "get_element"
          /\ (~U64Lt(out.args[1], input.nrows) \/ ~U64Lt(out.args[2], input.ncols)))
         => IsIndexOutOfBounds(out.res)
    /\ (out.op = "row_view" /\ ~U64Lt(out.args[1], input.nrows))
         => IsIndexOutOfBounds(out.res)
    /\ (out.op = "col_view" /\ ~U64Lt(out.args[1], input.ncols))
         => IsIndexOutOfBounds(out.res)
    /\ (out.op = "may_contain_row" /\ ~U64Lt(out.args[1], input.nrows))
         => IsIndexOutOfBounds(out.res)

(***************************************************************************)
(* C6: unknown version, data type or format.                               *)
(***************************************************************************)
\* C6: opening, with the typed or the dynamic reader, a file whose version
\* byte is not 1, whose data_type byte is outside 0..5 or whose format_type
\* byte is outside 0..2 returns UnsupportedFormat; no reader is returned.
C6_UnsupportedRejected ==
  (reader # <<>> /\ edit \in {"version", "data_type", "format_type"}) =>
    (~reader.ok /\ reader.err = "UnsupportedFormat")

(***************************************************************************)
(* C7: what from_file validates before it returns a reader.                *)
(***************************************************************************)
\* offset + size does not wrap and is within a file of len bytes.
RegionWithin(offset, size, len) ==
  LET end == U64Add(offset, size)
  IN ~end.overflow /\ U64Le(end.value, U64FromInt(len))

\* C7: opening never panics, and a reader is returned only if every region it
\* uses (values, indices_0, indices_1, and the bloom region when the header
\* declares one) ends, without wrap-around, within the file, the values
\* offset is a multiple of alignof(T), both index offsets are multiples of 4,
\* and the three views have exactly nnz elements.
C7_OpenValidation ==
  reader # <<>> =>
    /\ reader.ok \/ reader.err # "PANIC"
    /\ reader.ok =>
         LET h == ParsedFields(file.value)
             len == Len(file.value)
             m == reader.value
         IN /\ RegionWithin(h.values_offset, h.values_size, len)
            /\ RegionWithin(h.indices_0_offset, h.indices_0_size, len)
            /\ RegionWithin(h.indices_1_offset, h.indices_1_size, len)
            /\ (h.bloom_filter_offset # U64Zero /\ h.bloom_filter_size # U64Zero)
                 => RegionWithin(h.bloom_filter_offset, h.bloom_filter_size, len)
            /\ U64ModSmall(h.values_offset, align_of(m.t)) = 0
            /\ U64ModSmall(h.indices_0_offset, 4) = 0
            /\ U64ModSmall(h.indices_1_offset, 4) = 0
            /\ U64FromInt(Len(m.values)) = h.nnz
            /\ U64FromInt(Len(m.row_indices)) = h.nnz
            /\ U64FromInt(Len(m.col_indices)) = h.nnz

(***************************************************************************)
(* C8: stored entries outside the matrix.                                  *)
(***************************************************************************)
\* An error value that reports a stored entry as corrupt.
IsCorruptedData(res) ==
  /\ ~res.ok
  /\ \/ res.err = "CorruptedData"
     \/ /\ res.err = "InvalidState"
        /\ res.msg \in {"Corrupted data: row index exceeds matrix dimensions",
                        "Corrupted data: column index exceeds matrix dimensions"}

\* The caller's arguments of the last query are within the matrix.
ValidArguments ==
  LET a == out.args
  IN IF out.op = "get_element" THEN U64Lt(a[1], input.nrows) /\ U64Lt(a[2], input.ncols)
     ELSE IF out.op = "row_view" THEN U64Lt(a[1], input.nrows)
     ELSE IF out.op = "col_view" THEN U64Lt(a[1], input.ncols)
     ELSE IF out.op = "row_range_view"
     THEN U64Lt(a[1], a[2]) /\ U64Le(a[2], input.nrows)
     ELSE IF out.op = "submatrix_view"
     THEN /\ U64Lt(a[1], a[2]) /\ U64Le(a[2], input.nrows)
          /\ U64Lt(a[3], a[4]) /\ U64Le(a[4], input.ncols)
     ELSE FALSE

\* C8: on a file with a stored row >= nrows or column >= ncols, row_view,
\* col_view, row_range_view and submatrix_view, which pass over every entry,
\* report the corruption, and get_element reports it unless it returns a
\* value found before the corrupt entry; the entry is never skipped.
C8_CorruptEntriesReported ==
  (out # <<>> /\ edit \in {"row_index", "col_index"} /\ ValidArguments) =>
    \/ IsCorruptedData(out.res)
    \/ /\ out.op = "get_element"
       /\ out.res.ok /\ out.res.value.ok

(***************************************************************************)
(* C20: clear resets membership only.                                      *)
(***************************************************************************)
\* C20: every clear() step leaves every byte of the bit array zero and the
\* hash count as it was, and when the hash count is at least 1 the cleared
\* filter answers contains(x) = false for every x, the values inserted before
\* the clear included.
C20_ClearResetsMembershipOnly ==
  [][BloomClear =>
       /\ bf'.bits = [i \in 1..bf.n |-> 0]
       /\ bf'.hash_count = bf.hash_count
       /\ bf'.n = bf.n
       /\ bf.hash_count >= 1 =>
            \A x \in BloomKeys \cup inserted : ~BloomFilter_contains(bf', x)]_vars

\* A filter with eight hash functions that held usize::MAX was cleared, and a
\* contains call for that value has since answered false.
C20_Witness ==
  /\ cleared # {} /\ inserted = {}
  /\ <<65535, 65535, 65535, 65535>> \in cleared
  /\ bf.hash_count = 8
  /\ probe # <<>> /\ probe.value \in cleared /\ ~probe.result

(***************************************************************************)
(* C18: serialize and deserialize of the chunked bloom filter.             *)
(***************************************************************************)
\* The answers of two filters to the row and range queries of the first.
SameAnswers(f, g) ==
  /\ \A r \in ChunkRows(f) \cup {f.total_rows} :
       may_contain_row(g, r) = may_contain_row(f, r)
  /\ \A rg \in ChunkRanges(f), profile \in Profiles :
       U64Lt(rg[1], rg[2]) =>
         may_contain_range(g, rg[1], rg[2], profile)
           = may_contain_range(f, rg[1], rg[2], profile)

\* C18: serialize(F) is 12 + 9k bytes long for the k leaves of F, and
\* deserialize(serialize(F)) succeeds with the chunk_size, the total_rows and
\* the leaves (hash_count and 8 bit-bytes, in order) of F, and answers every
\* may_contain_row and may_contain_range query as F does.
C18_SerializeRoundTrip ==
  /\ (cb # <<>> /\ cb.ser # <<>>) =>
       Len(cb.ser) = 12 + (9 * Len(cb.f.chunk_filters))
  /\ (cb # <<>> /\ cb.de # <<>>) =>
       /\ cb.de.ok
       /\ cb.de.value.chunk_size = cb.f.chunk_size
       /\ cb.de.value.total_rows = cb.f.total_rows
       /\ cb.de.value.chunk_filters = cb.f.chunk_filters
       /\ SameAnswers(cb.f, cb.de.value)

(***************************************************************************)
(* C19: completeness of the range query.                                   *)
(***************************************************************************)
\* C19: may_contain_range(start, end) with start < end returns chunk ids in
\* ascending order without repetition, each below the number of chunks and
\* each of a chunk overlapping [start, end), among them the chunk
\* r / chunk_size of every inserted row r with start <= r < end.
C19_RangeComplete ==
  (cb # <<>> /\ cb.q # <<>> /\ cb.q.op = "may_contain_range") =>
    LET start == cb.q.args[1]
        end == cb.q.args[2]
        ids == cb.q.res.value
    IN /\ cb.q.res.ok
       /\ \A k \in 1..(Len(ids) - 1) : ids[k] < ids[k + 1]
       /\ \A k \in 1..Len(ids) :
            /\ ids[k] < Len(cb.f.chunk_filters)
            /\ U64Lt(U64Mul(U64FromInt(ids[k]), cb.f.chunk_size).value, end)
            /\ \/ U64Mul(U64FromInt(ids[k] + 1), cb.f.chunk_size).overflow
               \/ U64Lt(start, U64Mul(U64FromInt(ids[k] + 1), cb.f.chunk_size).value)
       /\ \A r \in cb.rows :
            (U64Le(start, r) /\ U64Lt(r, end)) =>
              \E k \in 1..Len(ids) :
                U64FromInt(ids[k]) = U64DivModWord(r, cb.f.chunk_size).q

(***************************************************************************)
(* C15, C16, C17: label lookup, validation of the metadata view, and the   *)
(* builder's padding.                                                      *)
(***************************************************************************)
\* The label array header (count, stride) of a side as the window holds it.
WindowArray(side) ==
  LabelArray_from_bytes(
    SubSeq(meta.window, U64ToInt(labels_offset(meta.view.value.header, side)) + 1,
           U64ToInt(labels_offset(meta.view.value.header, side)) + LABEL_HEADER_SIZE))

\* The last lookup went through an open view whose label array of that side
\* is present: its region is declared non-empty and its header decodes.
LookupInPresentArray ==
  /\ meta # <<>> /\ meta.q # <<>> /\ meta.q.op = "MetadataView"
  /\ labels_array(meta.view.value, meta.q.side, meta.profile).ok

\* An error value that reports the label index or the metadata as invalid.
IsInvalidMetadata(res) ==
  /\ ~res.ok
  /\ \/ res.err = "InvalidMetadata"
     \/ /\ res.err = "InvalidState"
        /\ res.msg \in {LabelMessages.row.index, LabelMessages.col.index}

\* C15: for a present label array with header (count, stride), row_label(i)
\* and col_label(i) return exactly the stride bytes at region offset
\* + 8 + i * stride for every i < count, and an error for every i >= count.
C15_LabelLookup ==
  LookupInPresentArray =>
    LET array == WindowArray(meta.q.side).value
        stride == U64ToInt(array.stride)
        first == U64ToInt(labels_offset(meta.view.value.header, meta.q.side))
                   + LABEL_HEADER_SIZE + (meta.q.idx * stride)
    IN IF U64Lt(U64FromInt(meta.q.idx), array.count)
       THEN /\ meta.q.res.ok
            /\ Len(meta.q.res.value) = stride
            /\ \A j \in 1..stride : meta.q.res.value[j] = meta.window[first + j]
       ELSE IsInvalidMetadata(meta.q.res)

\* C16: a view is opened only if each present label region ends, without
\* wrap-around, inside the window; a label is handed out only from an array
\* with stride in [1, 65536] and count * stride <= region size - 8, and it
\* lies inside the region of its own array.
C16_ViewValidation ==
  /\ (meta # <<>> /\ meta.view # <<>> /\ meta.view.ok) =>
       \A side \in Sides :
         LET header == meta.view.value.header
             end == U64Add(labels_offset(header, side), labels_size(header, side))
         IN labels_size(header, side) # U64Zero =>
              ~end.overflow /\ U64Le(end.value, U64FromInt(Len(meta.window)))
  /\ (LookupInPresentArray /\ meta.q.res.ok) =>
       LET array == WindowArray(meta.q.side).value
           size == labels_size(meta.view.value.header, meta.q.side)
           data == U64Mul(array.count, array.stride)
       IN /\ U64Le(U64FromInt(1), array.stride)
          /\ U64Le(array.stride, U64FromInt(MAX_LABEL_STRIDE))
          /\ U64Le(U64FromInt(LABEL_HEADER_SIZE), size)
          /\ ~data.overflow
          /\ U64Le(data.value, U64Sub(size, U64FromInt(LABEL_HEADER_SIZE)))
          /\ U64Le(U64FromInt(LABEL_HEADER_SIZE
                                + ((meta.q.idx + 1) * U64ToInt(array.stride))), size)

\* The labels given to the builder for a side.
InputLabels(side) == IF side = "row" THEN meta.rows ELSE meta.cols

\* Every label given to the builder is at most stride bytes long.
LabelsFit ==
  \A side \in Sides : \A i \in 1..Len(InputLabels(side)) :
    Len(InputLabels(side)[i]) <= meta.stride

\* C17: with labels no longer than the stride the builder succeeds, the view
\* of the built bytes opens, and row_label(i) and col_label(i) are the i-th
\* label of the input followed by zero bytes up to stride bytes; with a
\* longer label the builder returns an error and builds nothing.
C17_LabelPadding ==
  (meta # <<>> /\ meta.built # <<>> /\ meta.edit = "none") =>
    IF LabelsFit
    THEN /\ meta.built.ok
         /\ meta.view # <<>> => meta.view.ok
         /\ (meta.q # <<>> /\ meta.q.op = "MetadataView"
               /\ meta.q.idx < Len(InputLabels(meta.q.side))) =>
              LET lbl == InputLabels(meta.q.side)[meta.q.idx + 1]
              IN meta.q.res = Ok(lbl \o Zeros(meta.stride - Len(lbl)))
    ELSE /\ ~meta.built.ok
         /\ meta.built.err = "InvalidState"
         /\ meta.window = <<>>

\* A one-byte label in the second row slot of stride 2 was read back with one
\* zero byte after it.
C17_Witness ==
  /\ meta # <<>> /\ meta.q # <<>> /\ meta.q.op = "MetadataView"
  /\ meta.stride = 2 /\ meta.q.side = "row" /\ meta.q.idx = 1
  /\ Len(meta.rows) = 2 /\ Len(meta.rows[2]) = 1
  /\ meta.q.res.ok /\ meta.q.res.value = <<meta.rows[2][1], 0>>

(***************************************************************************)
(* The step-wise writer: order of the regions, order inside the streams,   *)
(* and the phases of a run.                                                *)
(***************************************************************************)
EmittedRegions == <<"header", "values", "indices_0", "indices_1", "bloom">>

RegionRank(region) ==
  CHOOSE r \in 1..Len(EmittedRegions) : EmittedRegions[r] = region

\* Where the header of a run places a region, and how long it says it is.
RecordedOffset(h, region) ==
  CASE region = "header" -> 0
    [] region = "values" -> U64ToInt(h.values_offset)
    [] region = "indices_0" -> U64ToInt(h.indices_0_offset)
    [] region = "indices_1" -> U64ToInt(h.indices_1_offset)
    [] region = "bloom" -> U64ToInt(h.bloom_filter_offset)

RecordedSize(h, region) ==
  CASE region = "header" -> SIZE
    [] region = "values" -> U64ToInt(h.values_size)
    [] region = "indices_0" -> U64ToInt(h.indices_0_size)
    [] region = "indices_1" -> U64ToInt(h.indices_1_size)
    [] region = "bloom" -> U64ToInt(h.bloom_filter_size)

RECURSIVE BytesLogged(_, _)
BytesLogged(log, region) ==
  IF log = <<>> THEN 0
  ELSE (IF Head(log).region = region THEN Head(log).len ELSE 0)
       + BytesLogged(Tail(log), region)

\* The writes of a run that belong to a region, gaps left out.
RegionWrites == {i \in 1..Len(wr.log) : wr.log[i].region # "padding"}

\* C11: in every run the regions are written in the order header, values,
\* row indices, column indices, bloom block; the first write of a region
\* starts when exactly as many bytes are in the file as the header records as
\* the region's offset (what lies between two regions is zero padding); a
\* region is written in full, as many bytes as the header records, before
\* the next one starts and before the run returns Ok; the recorded regions
\* do not overlap; and the bloom offset is indices_1_offset + indices_1_size.
C11_AssemblyOrder ==
  (wr # <<>> /\ wr.log # <<>>) =>
    LET h == run_header(wr)
        log == wr.log
    IN /\ \A i, j \in RegionWrites :
            i < j => RegionRank(log[i].region) <= RegionRank(log[j].region)
       /\ \A i \in RegionWrites :
            (\A j \in RegionWrites : j < i => log[j].region # log[i].region)
              => log[i].at = RecordedOffset(h, log[i].region)
       /\ \A i \in 1..Len(log) :
            log[i].region = "padding" =>
              \A b \in (log[i].at + 1)..(log[i].at + log[i].len) : wr.disk[b] = 0
       /\ \A i, j \in RegionWrites :
            RegionRank(log[i].region) < RegionRank(log[j].region) =>
              BytesLogged(log, log[i].region) = RecordedSize(h, log[i].region)
       /\ (wr.result # <<>> /\ wr.result.ok) =>
            /\ \A r \in 1..Len(EmittedRegions) :
                 BytesLogged(log, EmittedRegions[r]) = RecordedSize(h, EmittedRegions[r])
            /\ Len(wr.disk) = RecordedOffset(h, "bloom") + RecordedSize(h, "bloom")
       /\ \A r \in 1..(Len(EmittedRegions) - 1) :
            RecordedOffset(h, EmittedRegions[r]) + RecordedSize(h, EmittedRegions[r])
              <= RecordedOffset(h, EmittedRegions[r + 1])
       /\ U64ToInt(h.bloom_filter_offset)
            = U64ToInt(h.indices_1_offset) + U64ToInt(h.indices_1_size)

\* A run of eight-byte elements in three partitions that returned Ok, all
\* five regions in the file.
C11_Witness ==
  /\ wr # <<>> /\ wr.result # <<>> /\ wr.result.ok
  /\ Len(wr.buffers) = 3
  /\ wr.input.t = "I64"
  /\ {wr.log[i].region : i \in 1..Len(wr.log)} =
       {EmittedRegions[r] : r \in 1..Len(EmittedRegions)}

\* Entry i (from 1) of a stream of the run's file whose entries are width
\* bytes long and which starts at the zero-based offset.
StreamEntry(offset, width, i) ==
  SubSeq(wr.disk, offset + (i - 1) * width + 1, offset + i * width)

\* The three streams of the run's file are the partitions' buffers, one
\* after the other in partition order.
StreamsArePartitionsInOrder ==
  LET h == run_header(wr)
      nnz == Len(wr.input.elems)
      buffers == wr.buffers
  IN /\ SubSeq(wr.disk, U64ToInt(h.values_offset) + 1,
               U64ToInt(h.values_offset) + U64ToInt(h.values_size))
          = Flatten([k \in 1..Len(buffers) |-> buffers[k].values])
     /\ SubSeq(wr.disk, U64ToInt(h.indices_0_offset) + 1,
               U64ToInt(h.indices_0_offset) + 4 * nnz)
          = Flatten([k \in 1..Len(buffers) |-> buffers[k].rows])
     /\ SubSeq(wr.disk, U64ToInt(h.indices_1_offset) + 1,
               U64ToInt(h.indices_1_offset) + 4 * nnz)
          = Flatten([k \in 1..Len(buffers) |-> buffers[k].cols])

\* C12: whatever the number of workers and the order in which they finish,
\* in the file of a run that returned Ok the values, row-index and
\* column-index streams are the partitions' buffers in partition order, and
\* entry i of each stream is the value, the row and the column of input
\* triple i.
C12_StreamOrder ==
  (wr # <<>> /\ wr.result # <<>> /\ wr.result.ok) =>
    LET h == run_header(wr)
        t == wr.input.t
        elems == wr.input.elems
    IN /\ StreamsArePartitionsInOrder
       /\ \A i \in 1..Len(elems) :
            /\ StreamEntry(U64ToInt(h.values_offset), size_bytes(t), i)
                 = value_to_le_bytes(t, elems[i].value)
            /\ read_u32(wr.disk, U64ToInt(h.indices_0_offset) + (i - 1) * 4)
                 = elems[i].row
            /\ read_u32(wr.disk, U64ToInt(h.indices_1_offset) + (i - 1) * 4)
                 = elems[i].col

\* Every worker's buffer is collected and the bloom index is serialized.
AllBuilt ==
  /\ wr.pending = {} /\ wr.bloom # <<>>
  /\ \A k \in 1..Len(wr.buffers) : wr.buffers[k] # <<>>

\* What holds of every state of a run: a file that exists or holds bytes
\* was created after the workers and the bloom build had finished, its
\* bytes are the writes of the log laid end to end, and Ok is the result
\* only of a run that flushed a complete file.
PhasesInOrder ==
  /\ (wr.exists \/ wr.disk # <<>> \/ wr.log # <<>> \/ wr.pc = "create") => AllBuilt
  /\ (wr.pc = "done" /\ ~AllBuilt) => (~wr.exists /\ wr.disk = <<>> /\ ~wr.result.ok)
  /\ \A i \in 1..Len(wr.log) :
       wr.log[i].at = (IF i = 1 THEN 0 ELSE wr.log[i - 1].at + wr.log[i - 1].len)
  /\ (wr.result # <<>> /\ wr.result.ok) =>
       /\ wr.flushed /\ wr.exists
       /\ wr.log # <<>> /\ wr.log[Len(wr.log)].region = "bloom"
       /\ wr.log[Len(wr.log)].len = Len(wr.bloom)
  /\ wr.flushed => (wr.result # <<>> /\ wr.result.ok)

\* What holds of every step of a run: it issues at most one write, which
\* goes to the end of an existing file; the file comes into being only when
\* everything is built; and Ok is returned by the step that completes the
\* flush.
OneWriteAtATime ==
  /\ Len(wr'.log) <= Len(wr.log) + 1
  /\ Len(wr.disk) <= Len(wr'.disk)
  /\ SubSeq(wr'.disk, 1, Len(wr.disk)) = wr.disk
  /\ wr'.disk # wr.disk =>
       /\ wr.exists /\ Len(wr'.log) = Len(wr.log) + 1
       /\ wr.pending = {} /\ wr.bloom # <<>>
  /\ (~wr.exists /\ wr'.exists) => (wr.pc = "create" /\ wr.pending = {} /\ wr.bloom # <<>>)
  /\ (wr.result = <<>> /\ wr'.result # <<>> /\ wr'.result.ok) =>
       (wr.pc = "flush" /\ wr'.flushed)

\* C13: in every run the file is neither created nor written before every
\* worker and the bloom build have finished, so a run that ends before that
\* point (a panic, a dropped future) leaves no file; after it the writes are
\* issued one at a time, each to the end of the file; and Ok is returned
\* only once the final flush has completed.
C13_PhaseOrder == [](wr # <<>> => PhasesInOrder) /\ [][OneWriteAtATime]_vars

\* A run in two partitions dropped while it waited on a write of row
\* indices: the file exists and holds the header and the values, and there
\* is no success.
C13_Witness ==
  /\ wr # <<>> /\ wr.pc = "done"
  /\ ~wr.result.ok /\ wr.result.err = "Cancelled"
  /\ Len(wr.buffers) = 2 /\ AllBuilt
  /\ wr.exists /\ ~wr.flushed
  /\ wr.log # <<>> /\ wr.log[Len(wr.log)].region = "values"

(***************************************************************************)
(* The labelled writer against the plain one.                              *)
(***************************************************************************)
\* The file write_sparse_matrix produces for the matrix of the run.
PlainFile ==
  write_sparse_matrix(wr.input.t, wr.input.nrows, wr.input.ncols, wr.input.elems,
                      wr.input.chunk_size, wr.input.search).value

\* A call with labels that returned Ok.
LabelledDone ==
  /\ wr # <<>> /\ wr.pc = "done" /\ wr.result.ok
  /\ (wr.input.row_labels # <<>> \/ wr.input.col_labels # <<>>)

\* C14: after write_sparse_matrix_with_labels with labels returned Ok, the
\* target holds the bytes of the file write_sparse_matrix produces for the
\* same matrix, except for the header's metadata_offset and metadata_size
\* (bytes 96 to 111), followed by zero bytes up to metadata_offset, a
\* multiple of 8, and by the metadata section of metadata_size bytes.
C14_LabelsFrame ==
  LabelledDone =>
    LET f == wr.fs[wr.input.path]
        plain == PlainFile
        h == from_bytes(SubSeq(f.bytes, 1, SIZE)).value
        metadata_offset == U64ToInt(h.metadata_offset)
        metadata_size == U64ToInt(h.metadata_size)
    IN /\ f.exists
       /\ Len(f.bytes) >= Len(plain)
       /\ \A b \in 1..Len(plain) : b \notin 97..112 => f.bytes[b] = plain[b]
       /\ metadata_offset % 8 = 0
       /\ Len(plain) <= metadata_offset /\ metadata_offset < Len(plain) + 8
       /\ Len(f.bytes) = metadata_offset + metadata_size
       /\ \A b \in (Len(plain) + 1)..metadata_offset : f.bytes[b] = 0
       /\ SubSeq(f.bytes, metadata_offset + 1, metadata_offset + metadata_size)
            = build_metadata(wr.input.label_stride, wr.input.row_labels,
                             wr.input.col_labels).value

(***************************************************************************)
(* parse_range against the form of its input.                              *)
(***************************************************************************)
\* A non-empty string of decimal digits.
IsDecimal(str) == str # <<>> /\ \A i \in 1..Len(str) : str[i] \in 48..57

\* A decimal string without its leading zeros (a last zero is kept).
RECURSIVE StripZeros(_)
StripZeros(str) ==
  IF Len(str) > 1 /\ str[1] = 48 THEN StripZeros(Tail(str)) ELSE str

\* a <= b for two decimal strings without leading zeros, as numbers.
RECURSIVE DecimalLeSameLen(_, _)
DecimalLeSameLen(a, b) ==
  IF a = <<>> THEN TRUE
  ELSE IF a[1] # b[1] THEN a[1] < b[1]
  ELSE DecimalLeSameLen(Tail(a), Tail(b))

DecimalLe(a, b) ==
  LET x == StripZeros(a)
      y == StripZeros(b)
  IN IF Len(x) # Len(y) THEN Len(x) < Len(y) ELSE DecimalLeSameLen(x, y)

\* The number a decimal string denotes, modulo 2^64, on top of acc (a word,
\* never empty).
RECURSIVE DecimalWord(_, _)
DecimalWord(str, acc) ==
  IF str = <<>> \/ acc = <<>> THEN acc
  ELSE DecimalWord(Tail(str),
                   U64Add(U64Mul(acc, U64FromInt(10)).value,
                          U64FromInt(str[1] - 48)).value)

\* The positions at which the string splits into two decimal strings
\* around a colon or a dash, the first not greater than the second.
RangeForms(str) ==
  {p \in 1..Len(str) :
     /\ str[p] \in {58, 45}
     /\ IsDecimal(SubSeq(str, 1, p - 1))
     /\ IsDecimal(SubSeq(str, p + 1, Len(str)))
     /\ DecimalLe(SubSeq(str, 1, p - 1), SubSeq(str, p + 1, Len(str)))}

\* C21: parse_range(s) returns start..end exactly when s is "start:end" or
\* "start-end" with both endpoints non-empty strings of decimal digits and
\* start <= end; on every other string it returns InvalidRange.
C21_ParseRange ==
  (call # <<>> /\ call.fn = "parse_range" /\ call.res # <<>>) =>
    LET str == call.args
    IN IF RangeForms(str) # {}
       THEN \A p \in RangeForms(str) :
              /\ call.res.ok
              /\ call.res.value.start = DecimalWord(SubSeq(str, 1, p - 1), U64Zero)
              /\ call.res.value.end = DecimalWord(SubSeq(str, p + 1, Len(str)), U64Zero)
              /\ DecimalLe(SubSeq(str, 1, p - 1), <<49, 56, 52, 52, 54, 55, 52, 52, 48, 55, 51, 55, 48, 57, 53, 53, 49, 54, 49, 53>>)
              /\ DecimalLe(SubSeq(str, p + 1, Len(str)), <<49, 56, 52, 52, 54, 55, 52, 52, 48, 55, 51, 55, 48, 57, 53, 53, 49, 54, 49, 53>>)
       ELSE call.res = Err("InvalidRange")

(***************************************************************************)
(* Alignment against the least multiple.                                   *)
(***************************************************************************)
\* b is a power of two: it is one of 2^0 .. 2^63.
IsPowerOfTwo(b) ==
  \E i \in 1..4 : /\ \A j \in (1..4) \ {i} : b[j] = 0
                  /\ \E k \in 0..15 : b[i] = 2 ^ k

\* r is the least multiple of b that is >= x, for b > 0.
LeastMultipleAtLeast(r, x, b) ==
  /\ U64DivModWord(r, b).r = U64Zero
  /\ U64Le(x, r)
  /\ U64Lt(U64Sub(r, x), b)

\* C22: for every offset x and every power-of-two boundary b,
\* align_to_boundary(x, b) is the least multiple of b that is >= x, aligning
\* it again changes nothing, and calculate_padding(x, b) is
\* align_to_boundary(x, b) - x.
C22_Alignment ==
  (call # <<>> /\ call.fn \in {"align_to_boundary", "calculate_padding"}
     /\ call.res # <<>> /\ IsPowerOfTwo(call.args.boundary)) =>
    LET x == call.args.offset
        b == call.args.boundary
        aligned == align_to_boundary(x, b, call.args.profile)
    IN /\ call.res.ok
       /\ aligned.ok
       /\ LeastMultipleAtLeast(aligned.value, x, b)
       /\ align_to_boundary(aligned.value, b, call.args.profile) = aligned
       /\ call.fn = "align_to_boundary" => call.res = aligned
       /\ call.fn = "calculate_padding" => call.res.value = U64Sub(aligned.value, x)

(***************************************************************************)
(* Bulk insert against one insert after the other.                         *)
(***************************************************************************)
\* insert(r) for each r of the slice, in order.
RECURSIVE InsertEach(_, _)
InsertEach(cbf, rows) ==
  IF rows = <<>> \/ cbf = <<>> THEN cbf
  ELSE InsertEach(ChunkBloomFilter_insert(cbf, Head(rows)), Tail(rows))

\* C23: for every index and every non-decreasing slice, bulk_insert_sorted
\* returns and leaves the index in the state that insert(r) for each r of
\* the slice in order leads to, in whatever order the closures of the chunks
\* run; until then a closure has changed only the leaf filter of its own
\* chunk.
C23_BulkIsSequential ==
  (cb # <<>> /\ cb.pc # "start") =>
    /\ cb.pc = "done" => (cb.res.ok /\ cb.f = InsertEach(cb.before, cb.sorted_rows))
    /\ \A i \in 1..Len(cb.f.chunk_filters) :
         \/ cb.f.chunk_filters[i] = cb.before.chunk_filters[i]
         \/ /\ i \notin cb.pending
            /\ cb.f.chunk_filters[i]
                 = InsertEach(cb.before, cb.sorted_rows).chunk_filters[i]

(***************************************************************************)
(* The shape of a chunked bloom filter.                                    *)
(***************************************************************************)
\* C24: every filter that new, with_hash_count or a successful deserialize
\* returns, and every filter after inserts, has chunk_size > 0 and exactly
\* ceil(total_rows / chunk_size) leaf filters; may_contain_row and
\* may_contain_range return for every argument.
C24_FilterShape ==
  /\ (cb # <<>> /\ cb.f # <<>>) =>
       /\ cb.f.chunk_size # U64Zero
       /\ U64FromInt(Len(cb.f.chunk_filters)) = U64DivCeil(cb.f.total_rows, cb.f.chunk_size)
  /\ (cb # <<>> /\ cb.q # <<>>) => cb.q.res.ok

(***************************************************************************)
(* The hash count BloomFilter::new chooses.                                *)
(***************************************************************************)
\* ceil(floor(8 * N * 693 / e) / 1000) in unbounded integers.
ExactOptimalK(n, e) == (((8 * n * 693) \div e) + 999) \div 1000

\* C25: BloomFilter::<N>::new(e) sets hash_count to 3 when e = 0 and otherwise
\* to ceil(floor(8 * N * 693 / e) / 1000) clamped to 1..8; the hash count is
\* in 1..8 in every case.
C25_OptimalHashCount ==
  (call # <<>> /\ call.fn = "BloomFilter::new" /\ call.res # <<>>) =>
    /\ call.res.hash_count \in 1..8
    /\ call.res.hash_count
         = IF call.args[2] = 0 THEN 3
           ELSE IF ExactOptimalK(call.args[1], call.args[2]) < 1 THEN 1
           ELSE IF ExactOptimalK(call.args[1], call.args[2]) > 8 THEN 8
           ELSE ExactOptimalK(call.args[1], call.args[2])

(***************************************************************************)
(* The row-range view.                                                     *)
(***************************************************************************)
\* The stream indices of a reader whose stored row is in start..end - 1, in
\* ascending order.
StreamIndicesInRows(m, start, end) ==
  LET in_range(i) == U64Le(start, m.row_indices[i]) /\ U64Lt(m.row_indices[i], end)
  IN SelectSeq(Entries(m), in_range)

\* C26: on every reader, row_range_view(start, end) with start < end <= nrows
\* yields (row_i, col_i, value_i) for exactly the stream indices i with
\* start <= row_i < end, each once and in ascending order, and
\* row_range_view(r, r + 1) yields the entries of row_view(r) in the same
\* order; with start >= nrows, end > nrows or start >= end it returns an
\* error.
C26_RowRangeView ==
  (out # <<>> /\ out.op = "row_range_view") =>
    LET m == reader.value
        start == out.args[1]
        end == out.args[2]
        expected == StreamIndicesInRows(m, start, end)
    IN IF U64Lt(start, end) /\ U64Le(end, nrows(m))
       THEN /\ out.res.ok
            /\ out.res.value
                 = [k \in 1..Len(expected) |->
                      <<m.row_indices[expected[k]], m.col_indices[expected[k]],
                        m.values[expected[k]]>>]
            /\ end = U64Add(start, U64FromInt(1)).value =>
                 /\ row_view(m, start).ok
                 /\ row_view(m, start).value
                      = [k \in 1..Len(out.res.value) |->
                           <<out.res.value[k][2], out.res.value[k][3]>>]
       ELSE ~out.res.ok

(***************************************************************************)
(* The format invariants of a written file.                                *)
(***************************************************************************)
\* The arguments of the writer satisfy the format invariants.
InputIsValid ==
  /\ input.nrows # U64Zero /\ input.ncols # U64Zero
  /\ LET cells == U64Mul(input.nrows, input.ncols)
     IN cells.overflow \/ U64Le(U64FromInt(Len(input.elems)), cells.value)
  /\ \A i \in 1..Len(input.elems) :
       U64Lt(input.elems[i].row, input.nrows) /\ U64Lt(input.elems[i].col, input.ncols)

\* The index stream of a written file that starts at the given offset.
StoredIds(offset) ==
  U32View(Region(file.value, offset, offset + (4 * Len(input.elems))))

\* C27: a file that write_sparse_matrix returned success for has nrows > 0,
\* ncols > 0 and nnz <= nrows * ncols in its header, and every stored row id
\* is below nrows, every stored column id below ncols, each equal to the
\* index of the input; arguments that violate the invariants are rejected
\* with an error.
C27_WrittenFileInvariants ==
  (file # <<>>) =>
    /\ ~InputIsValid => (~file.ok /\ file.err # "PANIC")
    /\ file.ok =>
         LET layout == FileLayout_calculate(input.t, Len(input.elems))
             header_nrows == read_u64(file.value, 8)
             header_ncols == read_u64(file.value, 16)
             header_nnz == read_u64(file.value, 24)
             rows == StoredIds(layout.indices_0_offset)
             cols == StoredIds(layout.indices_1_offset)
         IN /\ header_nrows # U64Zero /\ header_ncols # U64Zero
            /\ U64Mul(header_nrows, header_ncols).overflow
                 \/ U64Le(header_nnz, U64Mul(header_nrows, header_ncols).value)
            /\ \A i \in 1..Len(input.elems) :
                 /\ U64Lt(rows[i], header_nrows) /\ rows[i] = input.elems[i].row
                 /\ U64Lt(cols[i], header_ncols) /\ cols[i] = input.elems[i].col

(***************************************************************************)
(* The hash count of the written bloom block.                              *)
(***************************************************************************)
\* The bloom block of a written file, decoded.
WrittenBloomBlock ==
  LET layout == FileLayout_calculate(input.t, Len(input.elems))
  IN deserialize(Region(file.value, layout.indices_1_offset + layout.indices_1_size,
                        Len(file.value)))

\* C28: every leaf filter in the bloom block of a written file, and in the
\* index a reader of the file loads, has the hash_count of the writer's
\* configuration (3 for the default configuration).
C28_ConfiguredHashCount ==
  /\ (file # <<>> /\ file.ok) =>
       /\ WrittenBloomBlock.ok
       /\ \A i \in 1..Len(WrittenBloomBlock.value.chunk_filters) :
            WrittenBloomBlock.value.chunk_filters[i].hash_count = input.bloom_hash_count
  /\ (reader # <<>> /\ reader.ok) =>
       \A i \in 1..Len(reader.value.chunk_bloom_filter.chunk_filters) :
         reader.value.chunk_bloom_filter.chunk_filters[i].hash_count
           = input.bloom_hash_count

(***************************************************************************)
(* The submatrix view against the point lookup.                            *)
(***************************************************************************)
\* Offsets into a range that the lookups are compared at.
LocalOffsets(start, end) ==
  { i \in 0..MaxRows : U64Lt(U64Add(start, U64FromInt(i)).value, end) }

\* C29: on every opened file, duplicates of a coordinate included, and for
\* non-empty ranges within the dimensions, submatrix_view(rows, cols) returns
\* a view whose get(i, j) equals get_element(rows.start + i, cols.start + j),
\* and that holds at most |rows| * |cols| entries.
C29_SubmatrixAgrees ==
  (out # <<>> /\ out.op = "submatrix_view" /\ edit \in {"none", "bloom_absent"}
     /\ U64Lt(out.args[1], out.args[2]) /\ U64Le(out.args[2], nrows(reader.value))
     /\ U64Lt(out.args[3], out.args[4]) /\ U64Le(out.args[4], ncols(reader.value))) =>
    /\ out.res.ok
    /\ \A i \in LocalOffsets(out.args[1], out.args[2]),
          j \in LocalOffsets(out.args[3], out.args[4]) :
         LET found == SubmatrixView_get(out.res.value, U64FromInt(i), U64FromInt(j))
         IN get_element(reader.value, U64Add(out.args[1], U64FromInt(i)).value,
                        U64Add(out.args[3], U64FromInt(j)).value)
              = Ok(IF found = None THEN None
                   ELSE Some(to_array_value(reader.value.t, found.value)))
    /\ LET rows == U64Sub(out.args[2], out.args[1])
           cols == U64Sub(out.args[4], out.args[3])
       IN U64Mul(rows, cols).overflow
            \/ U64Le(U64FromInt(Cardinality(out.res.value)), U64Mul(rows, cols).value)

(***************************************************************************)
(* The write of an empty matrix.                                           *)
(***************************************************************************)
\* C30: with no triples, a call of write_sparse_matrix that is not cancelled
\* and meets no file system failure returns success for every number of
\* workers; the file it leaves has three empty streams, opens with nnz = 0,
\* and get_element returns None for every row and column in range.
C30_EmptyMatrixWrite ==
  (/\ wr # <<>> /\ wr.input.elems = <<>> /\ wr.result # <<>>
   /\ wr.result.ok \/ wr.result.err \notin {"IoError", "Cancelled"}) =>
    /\ wr.result.ok
    /\ LET opened == from_file(wr.disk, wr.input.t, "release", wr.input.search)
       IN /\ opened.ok
          /\ opened.value.header.nnz = U64Zero
          /\ opened.value.values = <<>>
          /\ opened.value.row_indices = <<>>
          /\ opened.value.col_indices = <<>>
          /\ \A r \in 0..MaxRows, c \in 0..MaxCols :
               (U64Lt(U64FromInt(r), wr.input.nrows) /\ U64Lt(U64FromInt(c), wr.input.ncols))
                 => get_element(opened.value, U64FromInt(r), U64FromInt(c)) = Ok(None)

====
